---- MODULE Spec2Model ----
(***************************************************************************)
(* Verification model of lbryio/herald:                                    *)
(*   - searchAhead, the per-channel reordering of search hits              *)
(*     (server/server.go),                                                 *)
(*   - PrefixRow.Iter / Iter2, the iteration engine over the key-value     *)
(*     store (db/db.go),                                                   *)
(*   - the UTXO key/value codec (db/db.go),                                *)
(*   - PeerSubsLoadOrStore / PeerServersLoadOrStore (server/server.go).    *)
(* Each part has its own specification over the shared variables; the      *)
(* variables of the other parts stay at their idle values.                 *)
(***************************************************************************)
EXTENDS Integers, Sequences, FiniteSets, TLC

\* ------------------------------------------------------------------------
\* Bounds of the model
\* ------------------------------------------------------------------------
\* most rows in the store
MaxRows == 2
\* most items a consumer receives from one sequence
MaxRecv == 3
\* number of concurrent callers of the load-or-store functions
MaxCallers == 3
\* longest input list given to searchAhead
MaxHits == 7
\* page sizes 1..MaxPage
MaxPage == 3
\* per_channel_per_page ranges over -1..MaxCap
MaxCap == 2
\* nFields of UTXOKeyPackPartial ranges over -MaxNFields..MaxNFields
MaxNFields == 4
\* most rows in a store of UTXO rows
MaxUtxoRows == 3
\* most With* calls in a chain of setters
MaxSetterCalls == 3
\* n of ReadPrefixN ranges over 0..MaxReadN
MaxReadN == 3
\* the server height and the height asked for range over 0..MaxHeight
MaxHeight == 4
\* most height events the follower emits
MaxEvents == 6
\* most URLs in a Resolve request
MaxUrls == 3
\* most txos, and most extra txos, in the resolution of one URL
MaxOuts == 1

VARIABLES
    \* ---- searchAhead ----
    searchHits,                   \* the argument list, kept for reference
    pageSize,
    perChannelPerPage,
    searchHitsQ,                  \* input deque
    nextPageHitsMaybeCheckLater,  \* deferred deque
    finalHits,                    \* output slice
    channelCounters,              \* map[string]int, absent key reads as 0
    saPc,                         \* position of searchAhead
    saI,                          \* the drain loop's index i
    drainBegin,                   \* history: the deferred deque when the current drain began
    drainPopped,                  \* history: the hits the current drain popped, in order
    \* ---- UTXO codec ----
    utxoKey,                      \* two UTXOKey records, utxoKey[1] and utxoKey[2]
    utxoValue,                    \* a UTXOValue record
    packedKey,                    \* PackKey() of the two records
    packedValue,                  \* PackValue() of the value
    unpackedKey,                  \* UTXOKeyUnpack of the two packed keys
    unpackedValue,                \* UTXOValueUnpack of the packed value
    packedPartial,                \* UTXOKeyPackPartial of the two records, per nFields
    cdPc,                         \* "input", "packed", "unpacked"
    \* ---- PeerSubsLoadOrStore / PeerServersLoadOrStore ----
    peerMaps,                     \* s.PeerSubs and s.PeerServers: key -> *Peer (NoPeer: absent)
    rwMut,                        \* s.PeerSubsMut and s.PeerServersMut
    lsPc,                         \* position of each caller
    lsCall,                       \* each caller's call: the map it is about and peer.peerKey()
    lsRet,                        \* each caller's result (actual, loaded)
    firstStored,                  \* history: the first peer stored per map and key
    overwritten,                  \* history: the entries that were stored over
    numPeerSubs,                  \* *s.NumPeerSubs
    psMsg,                        \* the answer of each PeerSubscribe call
    \* ---- PrefixRow.Iter / Iter2 ----
    dbRows,                       \* the store: rows in ascending key order
    rowPrefix,                    \* pr.Prefix
    rowFuncs,                     \* pr.KeyUnpackFunc and pr.ValueUnpackFunc: "utxo" or "opaque"
    options,                      \* the IterOptions
    iterFn,                       \* "Iter" or "Iter2"
    itPos,                        \* position of the iterator: a row index, Len(dbRows)+1 when not valid
    itPc,                         \* position of the producer goroutine
    prevKey,
    newKeyData,
    curItem,                      \* the item of the pending send
    received,                     \* the items the consumer has received
    consumer,                     \* "receiving" or "dropped"
    chClosed,                     \* close(ch) has run
    itClosed,                     \* it.Close() has run
    roDestroyed,                  \* the read options were released
    nextCalls,                    \* number of it.Next() calls made
    undefinedCall,                \* history: Key(), Value() or Next() was called at a position not valid
    \* ---- NewIterateOptions and the With* setters ----
    optHeap,                      \* the IterOptions objects allocated, by address
    optCur,                       \* the pointer the chain holds: 0 is nil
    optGiven,                     \* history: per field the last value given, the default if none
    optLast,                      \* history: the field of the last setter called
    optCalls,                     \* number of setters called
    \* ---- ReadPrefixN ----
    rpRows,                       \* the store: rows in ascending key order
    rpPrefix,                     \* the prefix argument
    rpN,                          \* the n argument
    rpPos,                        \* position of the iterator
    rpI,                          \* the index i
    rpRes,                        \* res: n pointers to rows, NoRow for nil
    rpPc,                         \* position of ReadPrefixN
    rpItClosed,                   \* it.Close() has run
    \* ---- Server.Resolve ----
    rsUrls,                       \* per URL of args.Value what res.ToOutputs() gives
    rsIdx,                        \* number of URLs the loop has taken
    allTxos,
    allExtraTxos,
    rsRet,                        \* the result (*pb.Outputs, error)
    rsPc,                         \* position of Resolve
    \* ---- Server.HeightSubscribe ----
    hsDB,                         \* s.DB != nil
    hsHeight,                     \* s.DB.LastState.Height
    hsWant,                       \* arg.Value
    hsSent,                       \* the values sent on the stream
    hsErr,                        \* the error returned
    hsPc,                         \* position of HeightSubscribe
    \* ---- the notifier channel ----
    ntArgs,                       \* the start-up flags MakeHubServer looks at
    ntPc,                         \* position of MakeHubServer
    ntFollower,                   \* the goroutine of RunDetectChanges
    ntNotifier,                   \* the goroutine of RunNotifier
    ntTip,                        \* the last height the follower has seen
    ntPending,                    \* the event the follower has not handed over, NoEvent if none
    ntDelivered,                  \* the events the notifier has received
    \* ---- main in serve mode ----
    mnVariant,                    \* which of the two main functions runs
    mnArgs,                       \* args.DisableEs, args.DisableResolve
    mnLoadOk,                     \* LoadDatabase returns no error
    mnEsClient,                   \* s.EsClient != nil
    mnDB,                         \* s.DB != nil
    mnPc,                         \* position of main
    mnRun,                        \* s.Run(): "none", "serving", "stopped"
    mnSignal,                     \* the signal the process has received, "none" if none
    mnLog                         \* the shutdown steps done, in order

saVars == <<searchHits, pageSize, perChannelPerPage, searchHitsQ,
            nextPageHitsMaybeCheckLater, finalHits, channelCounters, saPc, saI,
            drainBegin, drainPopped>>

cdVars == <<utxoKey, utxoValue, packedKey, packedValue, unpackedKey, unpackedValue,
            packedPartial, cdPc>>

lsVars == <<peerMaps, rwMut, lsPc, lsCall, lsRet, firstStored, overwritten, numPeerSubs,
            psMsg>>

itVars == <<dbRows, rowPrefix, rowFuncs, options, iterFn, itPos, itPc, prevKey, newKeyData, curItem,
            received, consumer, chClosed, itClosed, roDestroyed, nextCalls, undefinedCall>>

opVars == <<optHeap, optCur, optGiven, optLast, optCalls>>

\* the parts of the program other than the four above
rpVars == <<rpRows, rpPrefix, rpN, rpPos, rpI, rpRes, rpPc, rpItClosed>>

rsVars == <<rsUrls, rsIdx, allTxos, allExtraTxos, rsRet, rsPc>>

hsVars == <<hsDB, hsHeight, hsWant, hsSent, hsErr, hsPc>>

ntVars == <<ntArgs, ntPc, ntFollower, ntNotifier, ntTip, ntPending, ntDelivered>>

mnVars == <<mnVariant, mnArgs, mnLoadOk, mnEsClient, mnDB, mnPc, mnRun, mnSignal, mnLog>>

otherVars == <<opVars, rpVars, rsVars, hsVars, ntVars, mnVars>>

vars == <<saVars, cdVars, lsVars, itVars, otherVars>>

\* ------------------------------------------------------------------------
\* Generic helpers
\* ------------------------------------------------------------------------
Range(s) == {s[k] : k \in 1..Len(s)}

SeqsUpTo(S, n) == UNION {[1..k -> S] : k \in 0..n}

Min(a, b) == IF a < b THEN a ELSE b

\* ------------------------------------------------------------------------
\* UTXO key/value codec (db/db.go)
\* ------------------------------------------------------------------------
\* A byte is 0..255.  TxNum (uint32) is held as two 16-bit limbs <<hi, lo>>
\* and Amount (uint64) as four 16-bit limbs, most significant first, so that
\* every value of the Go type has a representation; Nout (uint16) is a number.
ByteBase == 256

\* len(prefixes.UTXO)
prefixLen == 1

\* the width of hashX in the schema b'>11sLH'
HashXLen == 11

Zeros(n) == [k \in 1..n |-> 0]

\* s[lo..hi], 1-based and inclusive
Slice(s, lo, hi) == [k \in 1..(hi - lo + 1) |-> s[lo + k - 1]]

\* copy(dst[off:], src): copies min(len(dst) - off, len(src)) bytes
CopyAt(dst, off, src) ==
    [k \in 1..Len(dst) |-> IF k > off /\ k <= off + Len(src) THEN src[k - off] ELSE dst[k]]

\* the big-endian bytes of a 16-bit limb
LimbBytes(v) == <<v \div ByteBase, v % ByteBase>>

\* the limb of two big-endian bytes
BytesLimb(b, k) == b[k] * ByteBase + b[k + 1]

\* binary.BigEndian.PutUint16(dst[off:], v)
PutUint16(dst, off, v) == CopyAt(dst, off, LimbBytes(v))

\* binary.BigEndian.PutUint32(dst[off:], v)
PutUint32LimbsSwapped(dst, off, v) == CopyAt(dst, off, LimbBytes(v[2]) \o LimbBytes(v[1]))
PutUint32LowHalf(dst, off, v) == CopyAt(dst, off, <<0, 0>> \o LimbBytes(v[2]))
PutUint32(dst, off, v) == CopyAt(dst, off, LimbBytes(v[1]) \o LimbBytes(v[2]))

\* binary.BigEndian.PutUint64(dst[off:], v)
PutUint64(dst, off, v) ==
    CopyAt(dst, off, LimbBytes(v[1]) \o LimbBytes(v[2]) \o LimbBytes(v[3]) \o LimbBytes(v[4]))

\* binary.BigEndian.Uint16(b[off:])
Uint16(b, off) == BytesLimb(b, off + 1)

\* binary.BigEndian.Uint32(b[off:])
Uint32(b, off) == <<BytesLimb(b, off + 1), BytesLimb(b, off + 3)>>

\* binary.BigEndian.Uint64(b[off:])
Uint64(b, off) ==
    <<BytesLimb(b, off + 1), BytesLimb(b, off + 3), BytesLimb(b, off + 5), BytesLimb(b, off + 7)>>

\* (k *UTXOKey) PackKey()
PackKey(k) ==
    LET n    == prefixLen + HashXLen + 4 + 2
        key0 == Zeros(n)
        key1 == CopyAt(key0, 0, k.Prefix)
        key2 == CopyAt(key1, prefixLen, k.HashX)
        key3 == PutUint32(key2, prefixLen + HashXLen, k.TxNum)
    IN  PutUint16(key3, prefixLen + HashXLen + 4, k.Nout)

\* UTXOKeyPackPartial: nFields after "if nFields > 3" and "if nFields < 0"
ClampNFieldsUpperOnly(nFields) == IF nFields > 3 THEN 3 ELSE nFields
ClampNFields(nFields) ==
    LET upper == IF nFields > 3 THEN 3 ELSE nFields
    IN  IF upper < 0 THEN 0 ELSE upper

\* UTXOKeyPackPartial, first loop: what case i adds to n
FieldWidth(i) ==
    CASE i = 1 -> HashXLen
      [] i = 2 -> 4
      [] i = 3 -> 2
      [] OTHER -> 0

\* UTXOKeyPackPartial, first loop: n after the rounds i..nFields
RECURSIVE PartialLen(_, _, _)
PartialLen(n, i, nFields) ==
    IF i > nFields THEN n ELSE PartialLen(n + FieldWidth(i), i + 1, nFields)

\* UTXOKeyPackPartial, second loop: where case i writes
FieldOffsetShifted(i) ==
    CASE i = 1 -> prefixLen
      [] i = 2 -> prefixLen + HashXLen + 1
      [] i = 3 -> prefixLen + HashXLen + 4
      [] OTHER -> 0
FieldOffset(i) ==
    CASE i = 1 -> prefixLen
      [] i = 2 -> prefixLen + HashXLen
      [] i = 3 -> prefixLen + HashXLen + 4
      [] OTHER -> 0

\* UTXOKeyPackPartial, second loop: the key after the rounds i..nFields
RECURSIVE PartialFill(_, _, _, _)
PartialFill(key, k, i, nFields) ==
    IF i > nFields THEN key
    ELSE LET next == CASE i = 0 -> CopyAt(key, 0, k.Prefix)
                       [] i = 1 -> CopyAt(key, FieldOffset(1), k.HashX)
                       [] i = 2 -> PutUint32(key, FieldOffset(2), k.TxNum)
                       [] i = 3 -> PutUint16(key, FieldOffset(3), k.Nout)
                       [] OTHER -> key
         IN  PartialFill(next, k, i + 1, nFields)

\* UTXOKeyPackPartial(k, nFields)
UTXOKeyPackPartial(k, nFields) ==
    LET nf == ClampNFields(nFields)
        n  == PartialLen(prefixLen, 0, nf)
    IN  PartialFill(Zeros(n), k, 0, nf)

\* the nFields the model gives to UTXOKeyPackPartial
NFieldsRange == (0 - MaxNFields)..MaxNFields

\* UTXOKeyUnpack(key) panics when one of key[:1], key[1:12], Uint32(key[12:])
\* and Uint16(key[16:]) is out of range (the key has cap = len)
UTXOKeyUnpackPanics(key) ==
    \/ Len(key) < 1
    \/ Len(key) < 12
    \/ Len(key) < 12 + 4
    \/ Len(key) < 16 + 2

\* UTXOValueUnpack(value) panics when Uint64(value) is out of range
UTXOValueUnpackPanics(value) == Len(value) < 8

\* UTXOKeyUnpack(key), for a key of at least 18 bytes
UTXOKeyUnpack(key) ==
    [Prefix |-> Slice(key, 1, 1),
     HashX  |-> Slice(key, 2, 12),
     TxNum  |-> Uint32(key, 12),
     Nout   |-> Uint16(key, 16)]

\* (k *UTXOValue) PackValue()
PackValue(v) == PutUint64(Zeros(8), 0, v.Amount)

\* UTXOValueUnpack(value)
UTXOValueUnpack(value) == [Amount |-> Uint64(value, 0)]

\* sample byte strings for UTXOKey.Prefix: the one-byte prefixes 'u' and 0,
\* and a two-byte string, which the schema does not allow
PrefixSamples == {<<117>>, <<0>>, <<117, 1>>}

\* sample byte strings for UTXOKey.HashX: two of 11 bytes, and one of 10 and
\* one of 12 bytes, which the schema does not allow
HashXSamples ==
    {Zeros(11), [k \in 1..11 |-> 255 - k], Zeros(10), [k \in 1..12 |-> 170]}

TxNumSamples == {<<0, 0>>, <<0, 256>>, <<1, 0>>, <<65535, 65535>>}

NoutSamples == {0, 256, 65535}

AmountSamples ==
    {<<0, 0, 0, 100>>, <<0, 0, 1, 0>>, <<255, 0, 0, 256>>, <<65535, 65535, 65535, 65535>>}

UTXOKeys ==
    [Prefix : PrefixSamples, HashX : HashXSamples, TxNum : TxNumSamples, Nout : NoutSamples]

\* a record the row schema allows: 1-byte prefix, 11-byte hashX
LegalKey(k) == Len(k.Prefix) = prefixLen /\ Len(k.HashX) = HashXLen

NoKey == [Prefix |-> <<>>, HashX |-> <<>>, TxNum |-> <<0, 0>>, Nout |-> 0]

NoValue == [Amount |-> <<0, 0, 0, 0>>]

CodecIdle ==
    /\ utxoKey = <<NoKey, NoKey>>
    /\ utxoValue = NoValue
    /\ packedKey = <<<<>>, <<>>>>
    /\ packedValue = <<>>
    /\ unpackedKey = <<NoKey, NoKey>>
    /\ unpackedValue = NoValue
    /\ packedPartial = <<>>
    /\ cdPc = "idle"

CodecInit ==
    /\ utxoKey \in UTXOKeys \X UTXOKeys
    /\ utxoValue \in [Amount : AmountSamples]
    /\ packedKey = <<<<>>, <<>>>>
    /\ packedValue = <<>>
    /\ unpackedKey = <<NoKey, NoKey>>
    /\ unpackedValue = NoValue
    /\ packedPartial = <<>>
    /\ cdPc = "input"

\* pack the two keys, in full and in part, and the value
CodecPack ==
    /\ cdPc = "input"
    /\ packedKey' = <<PackKey(utxoKey[1]), PackKey(utxoKey[2])>>
    /\ packedPartial' = [r \in 1..2 |->
                            [n \in NFieldsRange |-> UTXOKeyPackPartial(utxoKey[r], n)]]
    /\ packedValue' = PackValue(utxoValue)
    /\ cdPc' = "packed"
    /\ UNCHANGED <<utxoKey, utxoValue, unpackedKey, unpackedValue, saVars, lsVars, itVars,
                   otherVars>>

\* unpack what was packed
CodecUnpack ==
    /\ cdPc = "packed"
    /\ unpackedKey' = <<UTXOKeyUnpack(packedKey[1]), UTXOKeyUnpack(packedKey[2])>>
    /\ unpackedValue' = UTXOValueUnpack(packedValue)
    /\ cdPc' = "unpacked"
    /\ UNCHANGED <<utxoKey, utxoValue, packedKey, packedValue, packedPartial, saVars, lsVars,
                   itVars, otherVars>>

CodecNext ==
    \/ CodecPack
    \/ CodecUnpack


\* ------------------------------------------------------------------------
\* PrefixRow.Iter / PrefixRow.Iter2 (db/db.go)
\* ------------------------------------------------------------------------
\* Keys, Start, Stop and the row prefix are byte strings over a two-letter
\* alphabet, up to two bytes long.
ByteLetters == {0, 1}

\* a nil []byte, as opposed to an empty one
NilBytes == <<-1>>

\* the non-empty byte strings a row key can be
KeySpace == UNION {[1..n -> ByteLetters] : n \in 1..2}

\* what Start and Stop can be: nil or a byte string
BoundSpace == {NilBytes} \cup KeySpace

\* what pr.Prefix can be: nil, one byte, or a longer partial key
PrefixSpace == {NilBytes, <<1>>, <<0, 1>>}

\* the value stored under a key
RowValue(key) == <<Len(key)>> \o key

\* bytes.Compare
Compare(a, b) ==
    LET n    == Min(Len(a), Len(b))
        diff == {k \in 1..n : a[k] # b[k]}
    IN  IF diff # {}
        THEN LET k == CHOOSE d \in diff : \A e \in diff : d <= e
             IN  IF a[k] < b[k] THEN -1 ELSE 1
        ELSE IF Len(a) < Len(b) THEN -1
        ELSE IF Len(a) > Len(b) THEN 1
        ELSE 0

\* bytes.HasPrefix
HasPrefix(b, pre) == Len(pre) <= Len(b) /\ Slice(b, 1, Len(pre)) = pre

\* the stores: up to MaxRows rows in ascending key order
Stores ==
    {rows \in SeqsUpTo(KeySpace, MaxRows) :
        \A k \in 1..Len(rows) - 1 : Compare(rows[k], rows[k + 1]) < 0}

RowsOf(keys) == [k \in 1..Len(keys) |-> [Key |-> keys[k], Value |-> RowValue(keys[k])]]

\* it.Valid()
Valid(rows, pos) == pos >= 1 /\ pos <= Len(rows)

\* it.Seek(target): the first row whose key is >= target; a nil target seeks
\* like an empty one
SeekTarget(target) == IF target = NilBytes THEN <<>> ELSE target

SeekPastEqual(rows, target) ==
    LET ge == {k \in 1..Len(rows) : Compare(rows[k].Key, SeekTarget(target)) > 0}
    IN  IF ge = {} THEN Len(rows) + 1 ELSE CHOOSE k \in ge : \A j \in ge : k <= j
Seek(rows, target) ==
    LET ge == {k \in 1..Len(rows) : Compare(rows[k].Key, SeekTarget(target)) >= 0}
    IN  IF ge = {} THEN Len(rows) + 1 ELSE CHOOSE k \in ge : \A j \in ge : k <= j

\* the closure stopIteration(key): "stop" for true, "go" for false, "panic"
\* when key[:len(Stop)] or key[:len(Start)] is out of range (the key slices
\* have cap = len)
StopIterationNoPrefix(key, opts, prefix) ==
    IF key = NilBytes THEN "go"
    ELSE IF opts.Stop # NilBytes /\ HasPrefix(key, opts.Stop) THEN "stop"
    ELSE IF opts.Stop # NilBytes /\ Len(opts.Stop) > Len(key) THEN "panic"
    ELSE IF opts.Stop # NilBytes /\ Compare(opts.Stop, Slice(key, 1, Len(opts.Stop))) < 0
        THEN "stop"
    ELSE IF opts.Start # NilBytes /\ Len(opts.Start) > Len(key) THEN "panic"
    ELSE IF opts.Start # NilBytes /\ Compare(opts.Start, Slice(key, 1, Len(opts.Start))) > 0
        THEN "stop"
    ELSE "go"
StopIteration(key, opts, prefix) ==
    IF key = NilBytes THEN "go"
    ELSE IF opts.Stop # NilBytes /\ HasPrefix(key, opts.Stop) THEN "stop"
    ELSE IF opts.Stop # NilBytes /\ Len(opts.Stop) > Len(key) THEN "panic"
    ELSE IF opts.Stop # NilBytes /\ Compare(opts.Stop, Slice(key, 1, Len(opts.Stop))) < 0
        THEN "stop"
    ELSE IF opts.Start # NilBytes /\ Len(opts.Start) > Len(key) THEN "panic"
    ELSE IF opts.Start # NilBytes /\ Compare(opts.Start, Slice(key, 1, Len(opts.Start))) > 0
        THEN "stop"
    ELSE IF prefix # NilBytes /\ ~HasPrefix(key, prefix) THEN "stop"
    ELSE "go"

\* it.Key() and it.Value() at a position that is not valid are undefined in
\* the store's API.  The outcomes: the call crashes ("crash", which is also
\* what Data() and Free() do on the nil *Slice of a null key), it returns an
\* empty slice ("empty"), or the bytes of the row the iterator was at last
\* ("stale").
InvalidReads == {"crash", "empty", "stale"}

\* the key and the value the read produces
ReadRow(rows, pos, outcome) ==
    IF Valid(rows, pos) THEN rows[pos]
    ELSE IF outcome = "stale" /\ Len(rows) > 0 THEN rows[Len(rows)]
    ELSE [Key |-> <<>>, Value |-> <<>>]

\* make([]byte, len(data)); copy(new, data): a nil slice has length 0
CopyBytes(data) == IF data = NilBytes THEN <<>> ELSE data

\* A byte slice lives in a buffer: "iterator" for keyData and valueData, the
\* slices borrowed from the iterator, which key.Free(), value.Free(), it.Next()
\* and it.Close() invalidate; "heap" for what make() allocated; "none" for nil.
\* the key of an item: Iter gives newKeyData, the copy of the key bytes, Iter2
\* what KeyUnpackFunc makes of the copy, both nil without IncludeKey
\* With the UTXO row's functions the unpacked key is UTXOKeyUnpack(newKeyData)
\* (whose Prefix and HashX are slices of newKeyData); any other row's function
\* is left opaque and the item records the bytes it was given.
ItemKey(fn, funcs, opts, copied) ==
    IF ~opts.IncludeKey THEN [kind |-> "nil", data |-> <<>>, buf |-> "none"]
    ELSE IF fn = "Iter2" /\ funcs = "utxo"
        THEN [kind |-> "UTXOKey", data |-> UTXOKeyUnpack(copied), buf |-> "heap"]
    ELSE IF fn = "Iter2" THEN [kind |-> "unpacked", data |-> copied, buf |-> "heap"]
    ELSE [kind |-> "bytes", data |-> copied, buf |-> "heap"]

\* the reflect call of the unpack functions panics when the function does
ItemPanics(fn, funcs, opts, keyData, valueData) ==
    /\ fn = "Iter2"
    /\ funcs = "utxo"
    /\ \/ opts.IncludeKey /\ UTXOKeyUnpackPanics(CopyBytes(keyData))
       \/ opts.IncludeValue /\ UTXOValueUnpackPanics(CopyBytes(valueData))

\* the value of an item: newValueData, the copy of the value bytes, or what
\* ValueUnpackFunc makes of the copy, nil without IncludeValue
ItemValueBorrowed(fn, funcs, opts, valueData) ==
    IF ~opts.IncludeValue THEN [kind |-> "nil", data |-> <<>>, buf |-> "none"]
    ELSE IF fn = "Iter2" /\ funcs = "utxo"
        THEN [kind |-> "UTXOValue", data |-> UTXOValueUnpack(valueData), buf |-> "iterator"]
    ELSE IF fn = "Iter2" THEN [kind |-> "unpacked", data |-> valueData, buf |-> "iterator"]
    ELSE [kind |-> "bytes", data |-> valueData, buf |-> "iterator"]
ItemValue(fn, funcs, opts, valueData) ==
    IF ~opts.IncludeValue THEN [kind |-> "nil", data |-> <<>>, buf |-> "none"]
    ELSE IF fn = "Iter2" /\ funcs = "utxo"
        THEN [kind |-> "UTXOValue", data |-> UTXOValueUnpack(CopyBytes(valueData)),
              buf |-> "heap"]
    ELSE IF fn = "Iter2"
        THEN [kind |-> "unpacked", data |-> CopyBytes(valueData), buf |-> "heap"]
    ELSE [kind |-> "bytes", data |-> CopyBytes(valueData), buf |-> "heap"]

\* an item: the PrefixRowKV sent, with two history fields: Raw, the bytes of
\* newKeyData when the item was made, and Row, the index of the row it was
\* read from (0 when the iterator was not valid)
NoItem ==
    [Key   |-> [kind |-> "nil", data |-> <<>>, buf |-> "none"],
     Value |-> [kind |-> "nil", data |-> <<>>, buf |-> "none"],
     Raw   |-> <<>>,
     Row   |-> 0]

\* the IterOptions the model draws; FillCache only reaches the read options
IterOptionSpace ==
    [FillCache : {FALSE}, Start : BoundSpace, Stop : BoundSpace,
     IncludeStart : BOOLEAN, IncludeStop : BOOLEAN,
     IncludeKey : BOOLEAN, IncludeValue : BOOLEAN]

\* NewIterateOptions()
NewIterateOptions ==
    [FillCache |-> FALSE, Start |-> NilBytes, Stop |-> NilBytes,
     IncludeStart |-> TRUE, IncludeStop |-> FALSE,
     IncludeKey |-> TRUE, IncludeValue |-> FALSE]

IterIdle ==
    /\ dbRows = <<>>
    /\ rowPrefix = NilBytes
    /\ rowFuncs = "opaque"
    /\ options = NewIterateOptions
    /\ iterFn = "none"
    /\ itPos = 1
    /\ itPc = "idle"
    /\ prevKey = NilBytes
    /\ newKeyData = NilBytes
    /\ curItem = NoItem
    /\ received = <<>>
    /\ consumer = "receiving"
    /\ chClosed = FALSE
    /\ itClosed = FALSE
    /\ roDestroyed = FALSE
    /\ nextCalls = 0
    /\ undefinedCall = FALSE

\* the UTXO rows a store can hold: hashX 85.., 170.. and 187.. with some
\* (tx_num, nout) and amounts, and a row whose key is cut short after one
\* byte of tx_num
UTXOHashX(b) == [k \in 1..HashXLen |-> b]

UTXORow(b, txNum, nout, amount) ==
    [Key   |-> PackKey([Prefix |-> <<117>>, HashX |-> UTXOHashX(b), TxNum |-> txNum,
                        Nout |-> nout]),
     Value |-> PackValue([Amount |-> amount])]

UTXORowSamples ==
    <<UTXORow(85, <<0, 7>>, 0, <<0, 0, 0, 50>>),
      [Key |-> <<117>> \o UTXOHashX(170) \o <<0>>, Value |-> PackValue([Amount |-> <<0, 0, 0, 1>>])],
      UTXORow(170, <<0, 1>>, 0, <<0, 0, 0, 100>>),
      UTXORow(170, <<0, 1>>, 1, <<0, 0, 0, 200>>),
      UTXORow(170, <<0, 5>>, 0, <<0, 0, 0, 300>>),
      UTXORow(187, <<0, 0>>, 0, <<0, 0, 1, 0>>)>>

\* the samples are in ascending key order; a store is a selection of them
UTXOStores ==
    {sel \in SeqsUpTo(1..Len(UTXORowSamples), MaxUtxoRows) :
        \A k \in 1..Len(sel) - 1 : sel[k] < sel[k + 1]}

\* the hashX values asked for
UTXOQueries == {85, 170, 187}

\* the options of a scan of one hashX: the partial pack of (prefix, hashX) as
\* Start (and as the row prefix), default stop, values included
UTXOScanOptions(b) ==
    [NewIterateOptions EXCEPT
        !.Start = UTXOKeyPackPartial([Prefix |-> <<117>>, HashX |-> UTXOHashX(b),
                                      TxNum |-> <<0, 0>>, Nout |-> 0], 1),
        !.IncludeValue = TRUE]

\* a store, a PrefixRow and IterOptions exist; Iter or Iter2 is about to be
\* called: on a store of short keys with any options, or on a store of UTXO
\* rows for the scan of one hashX
IterInit ==
    /\ \/ /\ dbRows \in {RowsOf(keys) : keys \in Stores}
          /\ rowPrefix \in PrefixSpace
          /\ rowFuncs = "opaque"
          /\ options \in IterOptionSpace
       \/ /\ dbRows \in {[k \in 1..Len(sel) |-> UTXORowSamples[sel[k]]] : sel \in UTXOStores}
          /\ rowFuncs = "utxo"
          /\ \E b \in UTXOQueries :
                /\ options = UTXOScanOptions(b)
                /\ rowPrefix = options.Start
    /\ iterFn = "none"
    /\ itPos = 1
    /\ itPc = "call"
    /\ prevKey = NilBytes
    /\ newKeyData = NilBytes
    /\ curItem = NoItem
    /\ received = <<>>
    /\ consumer = "receiving"
    /\ chClosed = FALSE
    /\ itClosed = FALSE
    /\ roDestroyed = FALSE
    /\ nextCalls = 0
    /\ undefinedCall = FALSE

ItFrame ==
    UNCHANGED <<dbRows, rowPrefix, rowFuncs, options, roDestroyed, saVars, cdVars, lsVars,
                otherVars>>

\* the body of Iter / Iter2 up to the go statement: new read options, new
\* iterator, Seek(pr.Prefix), then Seek(options.Start) when Start is set
IterCall ==
    /\ itPc = "call"
    /\ iterFn' \in {"Iter", "Iter2"}
    /\ itPos' = IF options.Start # NilBytes
                THEN Seek(dbRows, options.Start)
                ELSE Seek(dbRows, rowPrefix)
    /\ itPc' = "start"
    /\ UNCHANGED <<prevKey, newKeyData, curItem, received, consumer, chClosed, itClosed,
                   nextCalls, undefinedCall>>
    /\ ItFrame

\* it.Next(); at a position that is not valid the call is undefined: it
\* leaves the iterator not valid or crashes
NextOutcomes(rows, pos) == IF Valid(rows, pos) THEN {"ok"} ELSE {"ok", "crash"}

NextPos(rows, pos) == IF Valid(rows, pos) THEN pos + 1 ELSE pos

\* the deferred close(ch) and it.Close() run when the goroutine returns, and
\* also when it panics (the panic then ends the process)
ProducerEnds(how) ==
    /\ itPc' = how
    /\ chClosed' = TRUE
    /\ itClosed' = TRUE

\* the goroutine starts: if !options.IncludeStart { it.Next() }
IterStart ==
    /\ itPc = "start"
    /\ IF options.IncludeStart
       THEN /\ itPc' = "cond"
            /\ UNCHANGED <<itPos, nextCalls, chClosed, itClosed, undefinedCall>>
       ELSE /\ undefinedCall' = (undefinedCall \/ ~Valid(dbRows, itPos))
            /\ \E out \in NextOutcomes(dbRows, itPos) :
                IF out = "crash"
                THEN ProducerEnds("panic") /\ UNCHANGED <<itPos, nextCalls>>
                ELSE /\ itPos' = NextPos(dbRows, itPos)
                     /\ nextCalls' = nextCalls + 1
                     /\ itPc' = "cond"
                     /\ UNCHANGED <<chClosed, itClosed>>
    /\ UNCHANGED <<iterFn, prevKey, newKeyData, curItem, received, consumer>>
    /\ ItFrame

\* the loop condition !stopIteration(prevKey)
IterCond ==
    /\ itPc = "cond"
    /\ LET r == StopIteration(prevKey, options, rowPrefix) IN
        IF r = "go"
        THEN itPc' = "body" /\ UNCHANGED <<chClosed, itClosed>>
        ELSE IF r = "stop" THEN ProducerEnds("done")
        ELSE ProducerEnds("panic")
    /\ UNCHANGED <<iterFn, itPos, prevKey, newKeyData, curItem, received, consumer, nextCalls,
                   undefinedCall>>
    /\ ItFrame

\* the loop body up to the send: read key and value, test the current key
\* when IncludeStop is off, copy, build the item
IterBody ==
    /\ itPc = "body"
    /\ undefinedCall' = (undefinedCall \/ ~Valid(dbRows, itPos))
    /\ \E outcome \in (IF Valid(dbRows, itPos) THEN {"valid"} ELSE InvalidReads) :
        IF outcome = "crash"
        THEN /\ ProducerEnds("panic")
             /\ UNCHANGED <<newKeyData, curItem>>
        ELSE LET row == ReadRow(dbRows, itPos, outcome)
                 r   == IF options.IncludeStop THEN "go"
                        ELSE StopIteration(row.Key, options, rowPrefix)
             IN  IF r = "stop"
                 THEN ProducerEnds("done") /\ UNCHANGED <<newKeyData, curItem>>
                 ELSE IF r = "panic" \/ ItemPanics(iterFn, rowFuncs, options, row.Key, row.Value)
                 THEN ProducerEnds("panic") /\ UNCHANGED <<newKeyData, curItem>>
                 ELSE /\ newKeyData' = CopyBytes(row.Key)
                      /\ curItem' = [Key   |-> ItemKey(iterFn, rowFuncs, options,
                                                       CopyBytes(row.Key)),
                                     Value |-> ItemValue(iterFn, rowFuncs, options, row.Value),
                                     Raw   |-> CopyBytes(row.Key),
                                     Row   |-> IF Valid(dbRows, itPos) THEN itPos ELSE 0]
                      /\ itPc' = "send"
                      /\ UNCHANGED <<chClosed, itClosed>>
    /\ UNCHANGED <<iterFn, itPos, prevKey, received, consumer, nextCalls>>
    /\ ItFrame

\* ch <- item on the unbuffered channel: it completes when the consumer
\* receives; then prevKey = newKeyData
IterSend ==
    /\ itPc = "send"
    /\ consumer = "receiving"
    /\ Len(received) < MaxRecv
    /\ received' = Append(received, curItem)
    /\ prevKey' = newKeyData
    /\ itPc' = "next"
    /\ UNCHANGED <<iterFn, itPos, newKeyData, curItem, consumer, chClosed, itClosed, nextCalls,
                   undefinedCall>>
    /\ ItFrame

\* the loop's post statement it.Next()
IterNextStep ==
    /\ itPc = "next"
    /\ undefinedCall' = (undefinedCall \/ ~Valid(dbRows, itPos))
    /\ \E out \in NextOutcomes(dbRows, itPos) :
        IF out = "crash"
        THEN ProducerEnds("panic") /\ UNCHANGED <<itPos, nextCalls>>
        ELSE /\ itPos' = NextPos(dbRows, itPos)
             /\ nextCalls' = nextCalls + 1
             /\ itPc' = "cond"
             /\ UNCHANGED <<chClosed, itClosed>>
    /\ UNCHANGED <<iterFn, prevKey, newKeyData, curItem, received, consumer>>
    /\ ItFrame

\* the consumer stops receiving and drops the channel; the producer can only
\* tell at a send, so the step is taken while an item is pending
ConsumerDrop ==
    /\ consumer = "receiving"
    /\ itPc = "send"
    /\ consumer' = "dropped"
    /\ UNCHANGED <<iterFn, itPos, itPc, prevKey, newKeyData, curItem, received, chClosed,
                   itClosed, nextCalls, undefinedCall>>
    /\ ItFrame

ProducerNext ==
    \/ IterCall
    \/ IterStart
    \/ IterCond
    \/ IterBody
    \/ IterSend
    \/ IterNextStep

IterNext ==
    \/ IterCall
    \/ IterStart
    \/ IterCond
    \/ IterBody
    \/ IterSend
    \/ IterNextStep
    \/ ConsumerDrop

\* ------------------------------------------------------------------------
\* PeerSubsLoadOrStore / PeerServersLoadOrStore (server/server.go)
\* ------------------------------------------------------------------------
\* Every caller is a goroutine with a Peer object of its own; the caller's
\* number stands for the pointer to its Peer.
Callers == 1..MaxCallers

NoPeer == 0

\* the two maps, each with its RWMutex
PeerMapNames == {"PeerSubs", "PeerServers"}

\* values of peer.peerKey()
PeerKeys == {"k1", "k2"}

NoCall == [map |-> "none", key |-> "none"]

NoRet == [actual |-> NoPeer, loaded |-> FALSE]

\* no answer yet
NoMsg == "none"

\* a sync.RWMutex: the goroutines holding a read lock, the goroutine that
\* holds or waits for the write lock, and whether it holds it
FreeMutex == [readers |-> {}, writer |-> NoPeer, held |-> FALSE]

PeersInit ==
    /\ peerMaps = [m \in PeerMapNames |-> [k \in PeerKeys |-> NoPeer]]
    /\ rwMut = [m \in PeerMapNames |-> FreeMutex]
    /\ lsPc = [p \in Callers |-> "idle"]
    /\ lsCall = [p \in Callers |-> NoCall]
    /\ lsRet = [p \in Callers |-> NoRet]
    /\ firstStored = [m \in PeerMapNames |-> [k \in PeerKeys |-> NoPeer]]
    /\ overwritten = {}
    /\ numPeerSubs = 0
    /\ psMsg = [p \in Callers |-> NoMsg]

\* the variables of the peer maps while another part of the program is examined
PeersIdle ==
    /\ peerMaps = [m \in PeerMapNames |-> [k \in PeerKeys |-> NoPeer]]
    /\ rwMut = [m \in PeerMapNames |-> FreeMutex]
    /\ lsPc = [p \in Callers |-> "off"]
    /\ lsCall = [p \in Callers |-> NoCall]
    /\ lsRet = [p \in Callers |-> NoRet]
    /\ firstStored = [m \in PeerMapNames |-> [k \in PeerKeys |-> NoPeer]]
    /\ overwritten = {}
    /\ numPeerSubs = 0
    /\ psMsg = [p \in Callers |-> NoMsg]

LSFrame == UNCHANGED <<saVars, cdVars, itVars, otherVars, numPeerSubs, psMsg>>

\* caller p enters PeerSubsLoadOrStore or PeerServersLoadOrStore: key := peer.peerKey()
LSCall(p) ==
    /\ lsPc[p] = "idle"
    /\ \E m \in PeerMapNames, k \in PeerKeys :
          lsCall' = [lsCall EXCEPT ![p] = [map |-> m, key |-> k]]
    /\ lsPc' = [lsPc EXCEPT ![p] = "rlock"]
    /\ UNCHANGED <<peerMaps, rwMut, lsRet, firstStored, overwritten>>
    /\ LSFrame

\* Mut.RLock(): waits while a writer holds or waits for the lock
RLockFree(mu) == mu.writer = NoPeer

LSRLock(p) ==
    /\ lsPc[p] = "rlock"
    /\ RLockFree(rwMut[lsCall[p].map])
    /\ rwMut' = [rwMut EXCEPT ![lsCall[p].map].readers = @ \cup {p}]
    /\ lsPc' = [lsPc EXCEPT ![p] = "load"]
    /\ UNCHANGED <<peerMaps, lsCall, lsRet, firstStored, overwritten>>
    /\ LSFrame

\* actual, ok := s.PeerSubs[key]
LSLoad(p) ==
    /\ lsPc[p] = "load"
    /\ LET actual == peerMaps[lsCall[p].map][lsCall[p].key] IN
        IF actual # NoPeer
        THEN /\ lsRet' = [lsRet EXCEPT ![p] = [actual |-> actual, loaded |-> TRUE]]
             /\ lsPc' = [lsPc EXCEPT ![p] = "runlock_hit"]
        ELSE /\ lsPc' = [lsPc EXCEPT ![p] = "runlock_miss"]
             /\ UNCHANGED lsRet
    /\ UNCHANGED <<peerMaps, rwMut, lsCall, firstStored, overwritten>>
    /\ LSFrame

\* Mut.RUnlock(), then return actual, true
LSRUnlockHit(p) ==
    /\ lsPc[p] = "runlock_hit"
    /\ rwMut' = [rwMut EXCEPT ![lsCall[p].map].readers = @ \ {p}]
    /\ lsPc' = [lsPc EXCEPT ![p] = "done"]
    /\ UNCHANGED <<peerMaps, lsCall, lsRet, firstStored, overwritten>>
    /\ LSFrame

\* Mut.RUnlock() in the else branch
LSRUnlockMiss(p) ==
    /\ lsPc[p] = "runlock_miss"
    /\ rwMut' = [rwMut EXCEPT ![lsCall[p].map].readers = @ \ {p}]
    /\ lsPc' = [lsPc EXCEPT ![p] = "lock"]
    /\ UNCHANGED <<peerMaps, lsCall, lsRet, firstStored, overwritten>>
    /\ LSFrame

\* Mut.Lock(), first half: the caller becomes the waiting writer
LSLockWait(p) ==
    /\ lsPc[p] = "lock"
    /\ rwMut[lsCall[p].map].writer = NoPeer
    /\ rwMut' = [rwMut EXCEPT ![lsCall[p].map].writer = p]
    /\ lsPc' = [lsPc EXCEPT ![p] = "lockwait"]
    /\ UNCHANGED <<peerMaps, lsCall, lsRet, firstStored, overwritten>>
    /\ LSFrame

\* Mut.Lock(), second half: the readers have left
LSLockHeld(p) ==
    /\ lsPc[p] = "lockwait"
    /\ rwMut[lsCall[p].map].readers = {}
    /\ rwMut' = [rwMut EXCEPT ![lsCall[p].map].held = TRUE]
    /\ lsPc' = [lsPc EXCEPT ![p] = "store"]
    /\ UNCHANGED <<peerMaps, lsCall, lsRet, firstStored, overwritten>>
    /\ LSFrame

\* s.PeerSubs[key] = peer
StoreEntry(entries, k, peer) == [entries EXCEPT ![k] = peer]

LSStore(p) ==
    /\ lsPc[p] = "store"
    /\ LET m == lsCall[p].map
           k == lsCall[p].key
       IN /\ peerMaps' = [peerMaps EXCEPT ![m] = StoreEntry(@, k, p)]
          /\ firstStored' = IF firstStored[m][k] = NoPeer
                            THEN [firstStored EXCEPT ![m][k] = p]
                            ELSE firstStored
          /\ overwritten' = IF peerMaps[m][k] # NoPeer /\ peerMaps'[m][k] # peerMaps[m][k]
                            THEN overwritten \cup {<<m, k>>}
                            ELSE overwritten
    /\ lsPc' = [lsPc EXCEPT ![p] = "unlock"]
    /\ UNCHANGED <<rwMut, lsCall, lsRet>>
    /\ LSFrame

\* Mut.Unlock(), then return peer, false
LSUnlock(p) ==
    /\ lsPc[p] = "unlock"
    /\ rwMut' = [rwMut EXCEPT ![lsCall[p].map] = FreeMutex]
    /\ lsRet' = [lsRet EXCEPT ![p] = [actual |-> p, loaded |-> FALSE]]
    /\ lsPc' = [lsPc EXCEPT ![p] = "done"]
    /\ UNCHANGED <<peerMaps, lsCall, firstStored, overwritten>>
    /\ LSFrame

\* s.incNumSubs()
IncNumSubs(n) == n + 1

\* PeerSubscribe after PeerSubsLoadOrStore has returned: count the subscriber
\* when the peer was not loaded, and answer
PSAnswer(p) ==
    /\ lsPc[p] = "done"
    /\ lsCall[p].map = "PeerSubs"
    /\ IF ~lsRet[p].loaded
       THEN /\ numPeerSubs' = IncNumSubs(numPeerSubs)
            /\ psMsg' = [psMsg EXCEPT ![p] = "Success"]
       ELSE /\ psMsg' = [psMsg EXCEPT ![p] = "Already subscribed"]
            /\ UNCHANGED numPeerSubs
    /\ lsPc' = [lsPc EXCEPT ![p] = "answered"]
    /\ UNCHANGED <<peerMaps, rwMut, lsCall, lsRet, firstStored, overwritten>>
    /\ UNCHANGED <<saVars, cdVars, itVars, otherVars>>

PeersStep(p) ==
    \/ LSCall(p)
    \/ LSRLock(p)
    \/ LSLoad(p)
    \/ LSRUnlockHit(p)
    \/ LSRUnlockMiss(p)
    \/ LSLockWait(p)
    \/ LSLockHeld(p)
    \/ LSStore(p)
    \/ LSUnlock(p)
    \/ PSAnswer(p)

PeersNext ==
    \E p \in Callers :
        \/ LSCall(p)
        \/ LSRLock(p)
        \/ LSLoad(p)
        \/ LSRUnlockHit(p)
        \/ LSRUnlockMiss(p)
        \/ LSLockWait(p)
        \/ LSLockHeld(p)
        \/ LSStore(p)
        \/ LSUnlock(p)
        \/ PSAnswer(p)

\* ------------------------------------------------------------------------
\* searchAhead (server/server.go)
\* ------------------------------------------------------------------------
\* record.ChannelId values; "" is a hit without channel
ChannelIds == {"", "a", "b"}

\* a hit: its position in the input identifies the claim
Record(n, ch) == [ClaimId |-> n, ChannelId |-> ch]

\* the input lists: every sequence of channel ids up to MaxHits
SearchInputs ==
    {[k \in 1..Len(cs) |-> Record(k, cs[k])] : cs \in SeqsUpTo(ChannelIds, MaxHits)}

\* make(map[string]int)
EmptyCounters == [ch \in ChannelIds |-> 0]

\* deque.PopLeft: the deque that remains
PopLeft(q) == Tail(q)

\* deque.PushRight
PushRight(q, x) == Append(q, x)

\* the outer loop's condition
LoopCondNoLater(q, later) == q # <<>>
LoopCond(q, later) == q # <<>> \/ later # <<>>

\* len(finalHits) > 0 && len(finalHits) % pageSize == 0
PageCompleteAnyLength(out, ps) == Len(out) > 0
PageComplete(out, ps) == Len(out) > 0 /\ Len(out) % ps = 0

\* the test of the drain: perChannelPerPage > 0 && channelCounters[ch] < perChannelPerPage
DrainUnderCap(cnt, ch, cap) == cap > 0 /\ cnt[ch] < cap

\* hit.ChannelId == "" || perChannelPerPage < 0
GoesDirectNoEmpty(hit, cap) == cap < 0
GoesDirect(hit, cap) == hit.ChannelId = "" \/ cap < 0

\* channelCounters[hit.ChannelId] < perChannelPerPage
UnderCapOffByOne(cnt, ch, cap) == cnt[ch] <= cap
UnderCap(cnt, ch, cap) == cnt[ch] < cap

Incr(cnt, ch) == [cnt EXCEPT ![ch] = @ + 1]

\* the variables of searchAhead while another part of the program is examined
SAIdle ==
    /\ searchHits = <<>>
    /\ pageSize = 1
    /\ perChannelPerPage = 0
    /\ searchHitsQ = <<>>
    /\ nextPageHitsMaybeCheckLater = <<>>
    /\ finalHits = <<>>
    /\ channelCounters = EmptyCounters
    /\ saPc = "idle"
    /\ saI = 0
    /\ drainBegin = <<>>
    /\ drainPopped = <<>>

SAInit ==
    /\ searchHits \in SearchInputs
    /\ pageSize \in 1..MaxPage
    /\ perChannelPerPage \in -1..MaxCap
    /\ searchHitsQ = searchHits
    /\ nextPageHitsMaybeCheckLater = <<>>
    /\ finalHits = <<>>
    /\ channelCounters = EmptyCounters
    /\ saPc = "loop"
    /\ saI = 0
    /\ drainBegin = <<>>
    /\ drainPopped = <<>>

SAFrame ==
    UNCHANGED <<searchHits, pageSize, perChannelPerPage, cdVars, lsVars, itVars, otherVars>>

\* the loop condition is false: return finalHits
SALoopExit ==
    /\ saPc = "loop"
    /\ ~LoopCond(searchHitsQ, nextPageHitsMaybeCheckLater)
    /\ saPc' = "done"
    /\ UNCHANGED <<searchHitsQ, nextPageHitsMaybeCheckLater, finalHits,
                   channelCounters, saI, drainBegin, drainPopped>>
    /\ SAFrame

\* a page is complete: new counters, then the drain
SALoopReset ==
    /\ saPc = "loop"
    /\ LoopCond(searchHitsQ, nextPageHitsMaybeCheckLater)
    /\ PageComplete(finalHits, pageSize)
    /\ channelCounters' = EmptyCounters
    /\ saPc' = "drain"
    /\ saI' = 0
    /\ drainBegin' = nextPageHitsMaybeCheckLater
    /\ drainPopped' = <<>>
    /\ UNCHANGED <<searchHitsQ, nextPageHitsMaybeCheckLater, finalHits>>
    /\ SAFrame

\* the last page is incomplete: break
SALoopBreak ==
    /\ saPc = "loop"
    /\ LoopCond(searchHitsQ, nextPageHitsMaybeCheckLater)
    /\ ~PageComplete(finalHits, pageSize)
    /\ Len(finalHits) # 0
    /\ saPc' = "done"
    /\ UNCHANGED <<searchHitsQ, nextPageHitsMaybeCheckLater, finalHits,
                   channelCounters, saI, drainBegin, drainPopped>>
    /\ SAFrame

\* nothing in the output yet: straight to the drain
SALoopFirst ==
    /\ saPc = "loop"
    /\ LoopCond(searchHitsQ, nextPageHitsMaybeCheckLater)
    /\ ~PageComplete(finalHits, pageSize)
    /\ Len(finalHits) = 0
    /\ saPc' = "drain"
    /\ saI' = 0
    /\ drainBegin' = nextPageHitsMaybeCheckLater
    /\ drainPopped' = <<>>
    /\ UNCHANGED <<searchHitsQ, nextPageHitsMaybeCheckLater, finalHits, channelCounters>>
    /\ SAFrame

\* one iteration of  for i := 0; i < nextPageHitsMaybeCheckLater.Size(); i++
SADrainStep ==
    /\ saPc = "drain"
    /\ saI < Len(nextPageHitsMaybeCheckLater)
    /\ LET rec == Head(nextPageHitsMaybeCheckLater) IN
        /\ nextPageHitsMaybeCheckLater' = PopLeft(nextPageHitsMaybeCheckLater)
        /\ drainPopped' = Append(drainPopped, rec)
        /\ IF DrainUnderCap(channelCounters, rec.ChannelId, perChannelPerPage)
           THEN /\ finalHits' = Append(finalHits, rec)
                /\ channelCounters' = Incr(channelCounters, rec.ChannelId)
           ELSE UNCHANGED <<finalHits, channelCounters>>
    /\ saI' = saI + 1
    /\ UNCHANGED <<searchHitsQ, saPc, drainBegin>>
    /\ SAFrame

\* i < Size() is false: on to the input loop
SADrainEnd ==
    /\ saPc = "drain"
    /\ ~(saI < Len(nextPageHitsMaybeCheckLater))
    /\ saPc' = "input"
    /\ UNCHANGED <<searchHitsQ, nextPageHitsMaybeCheckLater, finalHits,
                   channelCounters, saI, drainBegin, drainPopped>>
    /\ SAFrame

\* one iteration of  for !searchHitsQ.Empty()
SAInputStep ==
    /\ saPc = "input"
    /\ searchHitsQ # <<>>
    /\ LET hit == Head(searchHitsQ) IN
        /\ searchHitsQ' = PopLeft(searchHitsQ)
        /\ IF GoesDirect(hit, perChannelPerPage)
           THEN /\ finalHits' = Append(finalHits, hit)
                /\ UNCHANGED <<channelCounters, nextPageHitsMaybeCheckLater, saPc>>
           ELSE IF UnderCap(channelCounters, hit.ChannelId, perChannelPerPage)
           THEN /\ finalHits' = Append(finalHits, hit)
                /\ channelCounters' = Incr(channelCounters, hit.ChannelId)
                /\ saPc' = IF Len(finalHits') % pageSize = 0 THEN "loop" ELSE "input"
                /\ UNCHANGED nextPageHitsMaybeCheckLater
           ELSE /\ nextPageHitsMaybeCheckLater' = PushRight(nextPageHitsMaybeCheckLater, hit)
                /\ UNCHANGED <<finalHits, channelCounters, saPc>>
    /\ UNCHANGED <<saI, drainBegin, drainPopped>>
    /\ SAFrame

\* the input deque is empty: back to the outer loop's condition
SAInputEnd ==
    /\ saPc = "input"
    /\ searchHitsQ = <<>>
    /\ saPc' = "loop"
    /\ UNCHANGED <<searchHitsQ, nextPageHitsMaybeCheckLater, finalHits,
                   channelCounters, saI, drainBegin, drainPopped>>
    /\ SAFrame

SANext ==
    \/ SALoopExit
    \/ SALoopReset
    \/ SALoopBreak
    \/ SALoopFirst
    \/ SADrainStep
    \/ SADrainEnd
    \/ SAInputStep
    \/ SAInputEnd

\* ------------------------------------------------------------------------
\* NewIterateOptions and the With* setters (db/db.go)
\* ------------------------------------------------------------------------
\* the fields of IterOptions
OptionFields ==
    {"FillCache", "Start", "Stop", "IncludeStart", "IncludeStop", "IncludeKey", "IncludeValue"}

\* &IterOptions{...}: the heap with the new object, and its address
NewObject(heap, obj) == [heap |-> Append(heap, obj), ret |-> Len(heap) + 1]

\* the setters: o.Field = value; return o
WithFillCache(heap, o, fillCache) ==
    [heap |-> [heap EXCEPT ![o].FillCache = fillCache], ret |-> o]

WithStart(heap, o, start) ==
    [heap |-> [heap EXCEPT ![o].Start = start], ret |-> o]

WithStopSetsStart(heap, o, stop) ==
    [heap |-> [heap EXCEPT ![o].Start = stop], ret |-> o]
WithStop(heap, o, stop) ==
    [heap |-> [heap EXCEPT ![o].Stop = stop], ret |-> o]

WithIncludeStart(heap, o, includeStart) ==
    [heap |-> [heap EXCEPT ![o].IncludeStart = includeStart], ret |-> o]

WithIncludeStop(heap, o, includeStop) ==
    [heap |-> [heap EXCEPT ![o].IncludeStop = includeStop], ret |-> o]

WithIncludeKey(heap, o, includeKey) ==
    [heap |-> [heap EXCEPT ![o].IncludeKey = includeKey], ret |-> o]

WithIncludeValue(heap, o, includeValue) ==
    [heap |-> [heap EXCEPT ![o].IncludeValue = includeValue], ret |-> o]

OptInit ==
    /\ optHeap = <<>>
    /\ optCur = 0
    /\ optGiven = NewIterateOptions
    /\ optLast = "none"
    /\ optCalls = 0

\* the variables of the options while another part of the program is examined
OptIdle ==
    /\ optHeap = <<>>
    /\ optCur = 0
    /\ optGiven = NewIterateOptions
    /\ optLast = "off"
    /\ optCalls = 0

OptFrame ==
    UNCHANGED <<saVars, cdVars, lsVars, itVars, rpVars, rsVars, hsVars, ntVars, mnVars>>

\* o := NewIterateOptions()
OptNew ==
    /\ optLast = "none"
    /\ optCur = 0
    /\ LET r == NewObject(optHeap, NewIterateOptions)
       IN  optHeap' = r.heap /\ optCur' = r.ret
    /\ optLast' = "new"
    /\ UNCHANGED <<optGiven, optCalls>>
    /\ OptFrame

\* one more setter in the chain: the call result r, on field f with value v
OptChain(r, f, v) ==
    /\ optCur # 0
    /\ optCalls < MaxSetterCalls
    /\ optHeap' = r.heap
    /\ optCur' = r.ret
    /\ optGiven' = [optGiven EXCEPT ![f] = v]
    /\ optLast' = f
    /\ optCalls' = optCalls + 1
    /\ OptFrame

OptWithFillCache ==
    \E v \in BOOLEAN : OptChain(WithFillCache(optHeap, optCur, v), "FillCache", v)

OptWithStart ==
    \E v \in BoundSpace : OptChain(WithStart(optHeap, optCur, v), "Start", v)

OptWithStop ==
    \E v \in BoundSpace : OptChain(WithStop(optHeap, optCur, v), "Stop", v)

OptWithIncludeStart ==
    \E v \in BOOLEAN : OptChain(WithIncludeStart(optHeap, optCur, v), "IncludeStart", v)

OptWithIncludeStop ==
    \E v \in BOOLEAN : OptChain(WithIncludeStop(optHeap, optCur, v), "IncludeStop", v)

OptWithIncludeKey ==
    \E v \in BOOLEAN : OptChain(WithIncludeKey(optHeap, optCur, v), "IncludeKey", v)

OptWithIncludeValue ==
    \E v \in BOOLEAN : OptChain(WithIncludeValue(optHeap, optCur, v), "IncludeValue", v)

OptNext ==
    \/ OptNew
    \/ OptWithFillCache
    \/ OptWithStart
    \/ OptWithStop
    \/ OptWithIncludeStart
    \/ OptWithIncludeStop
    \/ OptWithIncludeKey
    \/ OptWithIncludeValue

\* ------------------------------------------------------------------------
\* ReadPrefixN (db/db.go)
\* ------------------------------------------------------------------------
\* a nil *PrefixRowKV
NoRow == [Key |-> [data |-> <<>>, buf |-> "none"], Value |-> [data |-> <<>>, buf |-> "none"]]

\* key.Data(), value.Data(): the bytes where the iterator keeps them
SliceData(bytes) == [data |-> bytes, buf |-> "iterator"]

\* &PrefixRowKV{Key: key.Data(), Value: value.Data()}
NewPrefixRowKV(row) == [Key |-> SliceData(row.Key), Value |-> SliceData(row.Value)]

\* make([]*PrefixRowKV, n)
MakeRes(n) == [k \in 1..n |-> NoRow]

RPInit ==
    /\ rpRows \in {RowsOf(keys) : keys \in Stores}
    /\ rpPrefix \in BoundSpace
    /\ rpN \in 0..MaxReadN
    /\ rpPos = 1
    /\ rpI = 0
    /\ rpRes = <<>>
    /\ rpPc = "call"
    /\ rpItClosed = FALSE

\* the variables of ReadPrefixN while another part of the program is examined
RPIdle ==
    /\ rpRows = <<>>
    /\ rpPrefix = NilBytes
    /\ rpN = 0
    /\ rpPos = 1
    /\ rpI = 0
    /\ rpRes = <<>>
    /\ rpPc = "off"
    /\ rpItClosed = FALSE

RPFrame ==
    UNCHANGED <<rpRows, rpPrefix, rpN, saVars, cdVars, lsVars, itVars, opVars, rsVars, hsVars,
                ntVars, mnVars>>

\* new read options and iterator, res := make(..., n), i = 0, it.Seek(prefix)
RPCall ==
    /\ rpPc = "call"
    /\ rpRes' = MakeRes(rpN)
    /\ rpI' = 0
    /\ rpPos' = Seek(rpRows, rpPrefix)
    /\ rpPc' = "cond"
    /\ UNCHANGED rpItClosed
    /\ RPFrame

\* it.Valid() is false: return res, and the deferred it.Close()
RPLoopEnd ==
    /\ rpPc = "cond"
    /\ ~Valid(rpRows, rpPos)
    /\ rpPc' = "returned"
    /\ rpItClosed' = TRUE
    /\ UNCHANGED <<rpPos, rpI, rpRes>>
    /\ RPFrame

\* the loop body: res[i] is out of range when i >= len(res); else the row is
\* stored, key.Free(), value.Free(), i++, and break when i >= n
RPBody ==
    /\ rpPc = "cond"
    /\ Valid(rpRows, rpPos)
    /\ IF rpI >= Len(rpRes)
       THEN /\ rpPc' = "panic"
            /\ rpItClosed' = TRUE
            /\ UNCHANGED <<rpRes, rpI>>
       ELSE /\ rpRes' = [rpRes EXCEPT ![rpI + 1] = NewPrefixRowKV(rpRows[rpPos])]
            /\ rpI' = rpI + 1
            /\ IF rpI + 1 >= rpN
               THEN rpPc' = "returned" /\ rpItClosed' = TRUE
               ELSE rpPc' = "next" /\ UNCHANGED rpItClosed
    /\ UNCHANGED rpPos
    /\ RPFrame

\* it.Next()
RPNext ==
    /\ rpPc = "next"
    /\ rpPos' = rpPos + 1
    /\ rpPc' = "cond"
    /\ UNCHANGED <<rpI, rpRes, rpItClosed>>
    /\ RPFrame

ReadPrefixNext ==
    \/ RPCall
    \/ RPLoopEnd
    \/ RPBody
    \/ RPNext

\* ------------------------------------------------------------------------
\* Server.Resolve (server/server.go)
\* ------------------------------------------------------------------------
\* the errors res.ToOutputs() can return; NoErr is nil
NoErr == "nil"

ResolveErrors == {"e1", "e2"}

\* the outputs of URL number u: n of them, told apart by URL, kind and index
OutputsOf(u, kind, n) == [j \in 1..n |-> [url |-> u, kind |-> kind, n |-> j]]

\* what s.DB.Resolve(url).ToOutputs() gives for URL number u: txos and extra
\* txos with a nil error, or nil, nil and an error
ToOutputsResults(u) ==
    {[txos |-> OutputsOf(u, "txo", a), extraTxos |-> OutputsOf(u, "extra", b), err |-> NoErr] :
        a \in 0..MaxOuts, b \in 0..MaxOuts}
    \cup {[txos |-> <<>>, extraTxos |-> <<>>, err |-> err] : err \in ResolveErrors}

\* the requests of n URLs: the results of each URL
RECURSIVE RequestsOf(_)
RequestsOf(n) ==
    IF n = 0 THEN {<<>>}
    ELSE {Append(r, out) : r \in RequestsOf(n - 1), out \in ToOutputsResults(n)}

\* the requests: every list of up to MaxUrls URLs
ResolveRequests == UNION {RequestsOf(n) : n \in 0..MaxUrls}

\* append(allTxos, txos...)
AppendAllKeepsLast(all, new) == new
AppendAll(all, new) == all \o new

\* uint32(len(allTxos) + len(allExtraTxos))
Total(txos, extraTxos) == Len(txos) + Len(extraTxos)

\* a nil *pb.Outputs
NoOutputs == [Txos |-> <<>>, ExtraTxos |-> <<>>, Total |-> 0, isNil |-> TRUE]

NoResult == [res |-> NoOutputs, err |-> NoErr]

RSInit ==
    /\ rsUrls \in ResolveRequests
    /\ rsIdx = 0
    /\ allTxos = <<>>
    /\ allExtraTxos = <<>>
    /\ rsRet = NoResult
    /\ rsPc = "loop"

\* the variables of Resolve while another part of the program is examined
RSIdle ==
    /\ rsUrls = <<>>
    /\ rsIdx = 0
    /\ allTxos = <<>>
    /\ allExtraTxos = <<>>
    /\ rsRet = NoResult
    /\ rsPc = "off"

RSFrame ==
    UNCHANGED <<rsUrls, saVars, cdVars, lsVars, itVars, opVars, rpVars, hsVars, ntVars,
                mnVars>>

\* one iteration of  for _, url := range args.Value
RSUrl ==
    /\ rsPc = "loop"
    /\ rsIdx < Len(rsUrls)
    /\ LET out == rsUrls[rsIdx + 1] IN
        IF out.err # NoErr
        THEN /\ rsRet' = [res |-> NoOutputs, err |-> out.err]
             /\ rsPc' = "returned"
             /\ UNCHANGED <<allTxos, allExtraTxos>>
        ELSE /\ allTxos' = AppendAll(allTxos, out.txos)
             /\ allExtraTxos' = AppendAll(allExtraTxos, out.extraTxos)
             /\ UNCHANGED <<rsRet, rsPc>>
    /\ rsIdx' = rsIdx + 1
    /\ RSFrame

\* after the loop: res := &pb.Outputs{...}; return res, nil
RSReturn ==
    /\ rsPc = "loop"
    /\ rsIdx = Len(rsUrls)
    /\ rsRet' = [res |-> [Txos |-> allTxos, ExtraTxos |-> allExtraTxos,
                          Total |-> Total(allTxos, allExtraTxos), isNil |-> FALSE],
                 err |-> NoErr]
    /\ rsPc' = "returned"
    /\ UNCHANGED <<rsIdx, allTxos, allExtraTxos>>
    /\ RSFrame

ResolveNext ==
    \/ RSUrl
    \/ RSReturn

\* ------------------------------------------------------------------------
\* Server.HeightSubscribe (server/server.go)
\* ------------------------------------------------------------------------
Heights == 0..MaxHeight

\* what stream.Send returns
SendResults == {NoErr, "sendErr"}

HSInit ==
    /\ hsDB \in BOOLEAN
    /\ hsHeight \in Heights
    /\ hsWant \in Heights
    /\ hsSent = <<>>
    /\ hsErr = NoErr
    /\ hsPc = "entry"

\* the variables of HeightSubscribe while another part of the program is examined
HSIdle ==
    /\ hsDB = FALSE
    /\ hsHeight = 0
    /\ hsWant = 0
    /\ hsSent = <<>>
    /\ hsErr = NoErr
    /\ hsPc = "off"

HSFrame ==
    UNCHANGED <<hsDB, hsWant, saVars, cdVars, lsVars, itVars, opVars, rpVars, rsVars, ntVars,
                mnVars>>

\* if s.DB != nil { want := arg.Value ... } else { ... }
HSEntry ==
    /\ hsPc = "entry"
    /\ hsPc' = IF hsDB THEN "for" ELSE "send0"
    /\ UNCHANGED <<hsHeight, hsSent, hsErr>>
    /\ HSFrame

\* the else branch: stream.Send(Value: 0), return err or, after it, nil
HSSendZero ==
    /\ hsPc = "send0"
    /\ \E r \in SendResults :
          /\ hsSent' = IF r = NoErr THEN Append(hsSent, 0) ELSE hsSent
          /\ hsErr' = r
    /\ hsPc' = "returned"
    /\ UNCHANGED hsHeight
    /\ HSFrame

\* for s.DB.LastState.Height < want: into the body, or past the loop to
\* the final return nil
HSFor ==
    /\ hsPc = "for"
    /\ hsPc' = IF hsHeight < hsWant THEN "if" ELSE "returned"
    /\ UNCHANGED <<hsHeight, hsSent, hsErr>>
    /\ HSFrame

\* if s.DB.LastState.Height >= want
HSIf ==
    /\ hsPc = "if"
    /\ hsPc' = IF hsHeight >= hsWant THEN "send" ELSE "sleep"
    /\ UNCHANGED <<hsHeight, hsSent, hsErr>>
    /\ HSFrame

\* stream.Send(Value: s.DB.LastState.Height), return err or nil
HSSend ==
    /\ hsPc = "send"
    /\ \E r \in SendResults :
          /\ hsSent' = IF r = NoErr THEN Append(hsSent, hsHeight) ELSE hsSent
          /\ hsErr' = r
    /\ hsPc' = "returned"
    /\ UNCHANGED hsHeight
    /\ HSFrame

\* time.Sleep(time.Millisecond * 100)
HSSleep ==
    /\ hsPc = "sleep"
    /\ hsPc' = "for"
    /\ UNCHANGED <<hsHeight, hsSent, hsErr>>
    /\ HSFrame

\* another goroutine advances s.DB.LastState.Height while the handler runs
HSAdvance ==
    /\ hsDB
    /\ hsPc \notin {"off", "returned"}
    /\ hsHeight < MaxHeight
    /\ hsHeight' = hsHeight + 1
    /\ UNCHANGED <<hsSent, hsErr, hsPc>>
    /\ HSFrame

HeightSubscribeNext ==
    \/ HSEntry
    \/ HSSendZero
    \/ HSFor
    \/ HSIf
    \/ HSSend
    \/ HSSleep
    \/ HSAdvance

\* ------------------------------------------------------------------------
\* The notifier channel (server/server.go: MakeHubServer)
\* ------------------------------------------------------------------------
\* The channel is made in MakeHubServer, which also starts the two goroutines
\* at its ends. The sending end, inside RunDetectChanges, and the receiving
\* end, RunNotifier, follow the specification of the follower loop: a height
\* event is handed over without waiting, or kept as the latest one.
\* the flags of args that decide which ends are started
NotifierArgs ==
    [DisableResolve : BOOLEAN, DisableRocksDBRefresh : BOOLEAN, DisableStartNotifier : BOOLEAN]

\* if !args.DisableResolve && !args.DisableRocksDBRefresh
StartsDetectChanges(args) == ~args.DisableResolve /\ ~args.DisableRocksDBRefresh

\* if !args.DisableStartNotifier
StartsNotifier(args) == ~args.DisableStartNotifier

\* height events are heights 1..MaxEvents
NoEvent == 0

\* keep the latest of the event not yet handed over and the new one
Coalesce(pending, event) == event

\* the follower's send on make(chan *internal.HeightHash), a channel without
\* buffer: "handed" to a receiver that is waiting, "kept" by the follower
\* otherwise; a send that waits for the receiver ends "blocked"
SendWaits(receiverReady) == IF receiverReady THEN "handed" ELSE "blocked"
SendOrKeep(receiverReady) == IF receiverReady THEN "handed" ELSE "kept"

NTInit ==
    /\ ntArgs \in NotifierArgs
    /\ ntPc = "make"
    /\ ntFollower = "none"
    /\ ntNotifier = "none"
    /\ ntTip = 0
    /\ ntPending = NoEvent
    /\ ntDelivered = <<>>

\* the variables of the notifier channel while another part of the program is examined
NTIdle ==
    /\ ntArgs = [DisableResolve |-> TRUE, DisableRocksDBRefresh |-> TRUE,
                 DisableStartNotifier |-> TRUE]
    /\ ntPc = "off"
    /\ ntFollower = "none"
    /\ ntNotifier = "none"
    /\ ntTip = 0
    /\ ntPending = NoEvent
    /\ ntDelivered = <<>>

NTFrame ==
    UNCHANGED <<ntArgs, saVars, cdVars, lsVars, itVars, opVars, rpVars, rsVars, hsVars,
                mnVars>>

\* MakeHubServer: make the channel, start the background services
NTMakeHubServer ==
    /\ ntPc = "make"
    /\ ntFollower' = IF StartsDetectChanges(ntArgs) THEN "idle" ELSE "none"
    /\ ntNotifier' = IF StartsNotifier(ntArgs) THEN "ready" ELSE "none"
    /\ ntPc' = "serving"
    /\ UNCHANGED <<ntTip, ntPending, ntDelivered>>
    /\ NTFrame

\* the follower has caught up with a new height: the event to emit
FollowerDetect ==
    /\ ntFollower = "idle"
    /\ ntTip < MaxEvents
    /\ ntTip' = ntTip + 1
    /\ ntPending' = Coalesce(ntPending, ntTip + 1)
    /\ ntFollower' = "emit"
    /\ UNCHANGED <<ntPc, ntNotifier, ntDelivered>>
    /\ NTFrame

\* the follower emits the event to the channel
FollowerEmit ==
    /\ ntFollower = "emit"
    /\ LET sent == SendOrKeep(ntNotifier = "ready") IN
        /\ ntFollower' = IF sent = "blocked" THEN "blocked" ELSE "idle"
        /\ IF sent = "handed"
           THEN /\ ntDelivered' = Append(ntDelivered, ntPending)
                /\ ntNotifier' = "notifying"
                /\ ntPending' = NoEvent
           ELSE UNCHANGED <<ntDelivered, ntNotifier, ntPending>>
    /\ UNCHANGED <<ntPc, ntTip>>
    /\ NTFrame

\* the notifier has told the subscribers and receives again
NotifierDone ==
    /\ ntNotifier = "notifying"
    /\ ntNotifier' = "ready"
    /\ UNCHANGED <<ntPc, ntFollower, ntTip, ntPending, ntDelivered>>
    /\ NTFrame

NotifierNext ==
    \/ NTMakeHubServer
    \/ FollowerDetect
    \/ FollowerEmit
    \/ NotifierDone

\* ------------------------------------------------------------------------
\* main in serve mode (the two main functions; server/server.go: MakeHubServer)
\* ------------------------------------------------------------------------
\* "deferred" is the main that starts s.Run() as a goroutine and shuts down
\* in a deferred function; "inline" is the main that calls s.Run() itself and
\* has the shutdown after a select
MainVariants == {"deferred", "inline"}

\* interruptSignals / signal.Notify(interrupt, os.Interrupt, syscall.SIGTERM)
InterruptSignals == {"SIGINT", "SIGTERM"}

MainArgs == [DisableEs : BOOLEAN, DisableResolve : BOOLEAN]

\* client stays nil when args.DisableEs
MakesEsClient(args) == ~args.DisableEs

\* myDB stays nil when args.DisableResolve, and when LoadDatabase fails, which
\* is only logged
MakesDB(args, loadOk) == ~args.DisableResolve /\ loadOk

MNInit ==
    /\ mnVariant \in MainVariants
    /\ mnArgs \in MainArgs
    /\ mnLoadOk \in BOOLEAN
    /\ mnEsClient = FALSE
    /\ mnDB = FALSE
    /\ mnPc = "start"
    /\ mnRun = "none"
    /\ mnSignal = "none"
    /\ mnLog = <<>>

\* the variables of main while another part of the program is examined
MNIdle ==
    /\ mnVariant = "deferred"
    /\ mnArgs = [DisableEs |-> TRUE, DisableResolve |-> TRUE]
    /\ mnLoadOk = TRUE
    /\ mnEsClient = FALSE
    /\ mnDB = FALSE
    /\ mnPc = "off"
    /\ mnRun = "none"
    /\ mnSignal = "none"
    /\ mnLog = <<>>

MNFrame ==
    UNCHANGED <<mnVariant, mnArgs, mnLoadOk, saVars, cdVars, lsVars, itVars, opVars, rpVars,
                rsVars, hsVars, ntVars>>

\* the interrupt channel is set up, then s := server.MakeHubServer(ctxWCancel, args)
MNMakeHubServer ==
    /\ mnPc = "start"
    /\ mnEsClient' = MakesEsClient(mnArgs)
    /\ mnDB' = MakesDB(mnArgs, mnLoadOk)
    /\ mnPc' = "run"
    /\ UNCHANGED <<mnRun, mnSignal, mnLog>>
    /\ MNFrame

\* go s.Run() and on to <-interrupt, or s.Run(), which returns when Serve does
MNRun ==
    /\ mnPc = "run"
    /\ mnRun' = "serving"
    /\ mnPc' = IF mnVariant = "deferred" THEN "wait" ELSE "inRun"
    /\ UNCHANGED <<mnEsClient, mnDB, mnSignal, mnLog>>
    /\ MNFrame

\* the process receives SIGINT or SIGTERM: it goes to the interrupt channel
MNSignal ==
    /\ mnPc \notin {"off", "start", "exited", "panic"}
    /\ mnSignal = "none"
    /\ mnSignal' \in InterruptSignals
    /\ UNCHANGED <<mnEsClient, mnDB, mnPc, mnRun, mnLog>>
    /\ MNFrame

\* main is at its receive from the interrupt channel: at <-interrupt, or at
\* the select once s.Run() has returned
AtReceive ==
    IF mnVariant = "deferred" THEN mnPc = "wait" ELSE mnPc = "inRun" /\ mnRun = "stopped"

\* <-interrupt: on to the shutdown
MNInterrupt ==
    /\ AtReceive
    /\ mnSignal # "none"
    /\ mnPc' = "esStop"
    /\ UNCHANGED <<mnEsClient, mnDB, mnRun, mnSignal, mnLog>>
    /\ MNFrame

\* s.EsClient.Stop(): a nil pointer dereference when the client is nil
MNEsStop ==
    /\ mnPc = "esStop"
    /\ IF mnEsClient
       THEN mnLog' = Append(mnLog, "EsClient.Stop") /\ mnPc' = "grpcStop"
       ELSE mnPc' = "panic" /\ UNCHANGED mnLog
    /\ UNCHANGED <<mnEsClient, mnDB, mnRun, mnSignal>>
    /\ MNFrame

\* s.GrpcServer.GracefulStop(): Serve returns; then s.DB.Shutdown(), or the
\* return of the main that has none
MNGracefulStop ==
    /\ mnPc = "grpcStop"
    /\ mnRun' = "stopped"
    /\ mnLog' = Append(mnLog, "GrpcServer.GracefulStop")
    /\ mnPc' = IF mnVariant = "deferred" THEN "dbStop" ELSE "exited"
    /\ UNCHANGED <<mnEsClient, mnDB, mnSignal>>
    /\ MNFrame

\* s.DB.Shutdown(), a nil pointer dereference when the DB is nil; then main returns
MNDBShutdown ==
    /\ mnPc = "dbStop"
    /\ IF mnDB
       THEN mnLog' = Append(mnLog, "DB.Shutdown") /\ mnPc' = "exited"
       ELSE mnPc' = "panic" /\ UNCHANGED mnLog
    /\ UNCHANGED <<mnEsClient, mnDB, mnRun, mnSignal>>
    /\ MNFrame

\* the steps of main itself
MainStep ==
    \/ MNMakeHubServer
    \/ MNRun
    \/ MNInterrupt
    \/ MNEsStop
    \/ MNGracefulStop
    \/ MNDBShutdown

MainNext ==
    \/ MNMakeHubServer
    \/ MNRun
    \/ MNSignal
    \/ MNInterrupt
    \/ MNEsStop
    \/ MNGracefulStop
    \/ MNDBShutdown

\* the parts other than the first four, while one of those is examined
OthersIdle == OptIdle /\ RPIdle /\ RSIdle /\ HSIdle /\ NTIdle /\ MNIdle

\* ------------------------------------------------------------------------
\* Specifications
\* ------------------------------------------------------------------------
SearchInit == SAInit /\ CodecIdle /\ PeersIdle /\ IterIdle /\ OthersIdle

SpecSearch == SearchInit /\ [][SANext]_vars

\* searchAhead is a sequential function: it keeps running until it returns
FairSpecSearch == SpecSearch /\ WF_vars(SANext)

PeersSpecInit == PeersInit /\ SAIdle /\ CodecIdle /\ IterIdle /\ OthersIdle

SpecPeers == PeersSpecInit /\ [][PeersNext]_vars

\* the goroutines are scheduled fairly
FairSpecPeers == SpecPeers /\ \A p \in Callers : WF_vars(PeersStep(p))

IterSpecInit == IterInit /\ SAIdle /\ CodecIdle /\ PeersIdle /\ OthersIdle

SpecIter == IterSpecInit /\ [][IterNext]_vars

\* the producer goroutine is scheduled fairly; nothing obliges the consumer
\* to go on receiving
FairSpecIter == SpecIter /\ WF_vars(ProducerNext)

CodecSpecInit == CodecInit /\ SAIdle /\ PeersIdle /\ IterIdle /\ OthersIdle

SpecCodec == CodecSpecInit /\ [][CodecNext]_vars

OptSpecInit ==
    OptInit /\ SAIdle /\ CodecIdle /\ PeersIdle /\ IterIdle /\ RPIdle /\ RSIdle /\ HSIdle
        /\ NTIdle /\ MNIdle

\* the chains of setters on a new options object
SpecOptions == OptSpecInit /\ [][OptNext]_vars

ReadPrefixSpecInit ==
    RPInit /\ SAIdle /\ CodecIdle /\ PeersIdle /\ IterIdle /\ OptIdle /\ RSIdle /\ HSIdle
        /\ NTIdle /\ MNIdle

SpecReadPrefix == ReadPrefixSpecInit /\ [][ReadPrefixNext]_vars

ResolveSpecInit ==
    RSInit /\ SAIdle /\ CodecIdle /\ PeersIdle /\ IterIdle /\ OptIdle /\ RPIdle /\ HSIdle
        /\ NTIdle /\ MNIdle

SpecResolve == ResolveSpecInit /\ [][ResolveNext]_vars

HeightSubscribeSpecInit ==
    HSInit /\ SAIdle /\ CodecIdle /\ PeersIdle /\ IterIdle /\ OptIdle /\ RPIdle /\ RSIdle
        /\ NTIdle /\ MNIdle

SpecHeightSubscribe == HeightSubscribeSpecInit /\ [][HeightSubscribeNext]_vars

NotifierSpecInit ==
    NTInit /\ SAIdle /\ CodecIdle /\ PeersIdle /\ IterIdle /\ OptIdle /\ RPIdle /\ RSIdle
        /\ HSIdle /\ MNIdle

SpecNotifier == NotifierSpecInit /\ [][NotifierNext]_vars

MainSpecInit ==
    MNInit /\ SAIdle /\ CodecIdle /\ PeersIdle /\ IterIdle /\ OptIdle /\ RPIdle /\ RSIdle
        /\ HSIdle /\ NTIdle

SpecMain == MainSpecInit /\ [][MainNext]_vars

\* ------------------------------------------------------------------------
\* Properties of searchAhead
\* ------------------------------------------------------------------------
\* how often channel ch occurs in out[lo..hi]
CountCh(out, lo, hi, ch) == Cardinality({k \in lo..hi : out[k].ChannelId = ch})

RealChannels == ChannelIds \ {""}

\* the positions of hit h in sequence s
Positions(s, h) == {k \in 1..Len(s) : s[k] = h}

NoDuplicates(s) == \A j, k \in 1..Len(s) : s[j] = s[k] => j = k

\* C2 as stated: with a cap > 0, in EVERY window of page_size consecutive
\* output items (starting at any index) no channel id occurs more than
\* per_channel_per_page times.
C2_AnyWindowCap ==
    (saPc = "done" /\ perChannelPerPage > 0) =>
        \A s \in 1..Len(finalHits) :
            (s + pageSize - 1 <= Len(finalHits)) =>
                \A ch \in RealChannels :
                    CountCh(finalHits, s, s + pageSize - 1, ch) <= perChannelPerPage

\* C2 amended: with a cap > 0, in every PAGE-ALIGNED window of the output
\* (items (p-1)*page_size+1 .. p*page_size, the last page possibly short) no
\* channel id occurs more than per_channel_per_page times; this holds of the
\* output at every moment of the run.
C2_AlignedWindowCap ==
    perChannelPerPage > 0 =>
        \A p \in 1..(Len(finalHits) + pageSize - 1) \div pageSize :
            \A ch \in RealChannels :
                CountCh(finalHits, (p - 1) * pageSize + 1,
                        Min(p * pageSize, Len(finalHits)), ch) <= perChannelPerPage

\* the cap was reached on a page and a hit was deferred past a later input hit
C2_Witness ==
    /\ saPc = "done"
    /\ perChannelPerPage > 0
    /\ Len(finalHits) > pageSize
    /\ \E ch \in RealChannels :
          CountCh(finalHits, 1, pageSize, ch) = perChannelPerPage
    /\ \E k \in 1..Len(finalHits) - 1 : finalHits[k].ClaimId > finalHits[k + 1].ClaimId

\* C6 as stated: the output is a permutation of a prefix of the input: for
\* some n it holds exactly the first n input hits, each once.
C6_PermutationOfPrefix ==
    saPc = "done" =>
        \E n \in 0..Len(searchHits) :
            /\ Len(finalHits) = n
            /\ Range(finalHits) = {searchHits[k] : k \in 1..n}

\* C6 amended: the output is a permutation of a sub-list of the input, not
\* necessarily of a prefix: every output hit is an input hit, no hit occurs
\* twice, and every input hit without channel id is in the output (only hits
\* with a channel id are left out).
C6_PermutationOfSublist ==
    saPc = "done" =>
        /\ NoDuplicates(finalHits)
        /\ Range(finalHits) \subseteq Range(searchHits)
        /\ \A k \in 1..Len(searchHits) :
              searchHits[k].ChannelId = "" => searchHits[k] \in Range(finalHits)

\* with a cap > 0, a deferred hit stays out while a later input hit is returned
C6_Witness ==
    /\ saPc = "done"
    /\ perChannelPerPage > 0
    /\ nextPageHitsMaybeCheckLater # <<>>
    /\ \E j, k \in 1..Len(searchHits) :
          /\ j < k
          /\ searchHits[j] \notin Range(finalHits)
          /\ searchHits[k] \in Range(finalHits)
          /\ searchHits[k].ChannelId = ""

\* C7: two hits of the same channel that are both in the output are there in
\* the order they have in the input.
C7_OrderWithinChannel ==
    saPc = "done" =>
        \A j, k \in 1..Len(finalHits) :
            (j < k /\ finalHits[j].ChannelId = finalHits[k].ChannelId
                   /\ finalHits[j].ChannelId # "")
                => finalHits[j].ClaimId < finalHits[k].ClaimId

\* C8: with per_channel_per_page <= 0 the cap is disabled and searchAhead
\* returns the input list unchanged.
C8_CapDisabledIsIdentity ==
    (saPc = "done" /\ perChannelPerPage <= 0) => finalHits = searchHits

\* C9: a step of the drain examines the head of the deferred queue and moves
\* it to the output iff its channel counter is below the cap, else puts it
\* back at the end of the queue; when the drain ends it has examined every hit
\* that was deferred when it began, each once, and each of them is in the
\* output or in the deferred queue.
C9_DrainStepOk ==
    LET rec == Head(nextPageHitsMaybeCheckLater) IN
    IF channelCounters[rec.ChannelId] < perChannelPerPage
    THEN /\ finalHits' = Append(finalHits, rec)
         /\ nextPageHitsMaybeCheckLater' = Tail(nextPageHitsMaybeCheckLater)
    ELSE /\ finalHits' = finalHits
         /\ nextPageHitsMaybeCheckLater' = Append(Tail(nextPageHitsMaybeCheckLater), rec)

C9_DrainEndOk ==
    /\ drainPopped = drainBegin
    /\ \A h \in Range(drainBegin) :
          h \in Range(finalHits) \/ h \in Range(nextPageHitsMaybeCheckLater)

C9_DrainKeepsEveryHit ==
    [][ /\ (saPc = "drain" /\ saPc' = "drain") => C9_DrainStepOk
        /\ (saPc = "drain" /\ saPc' = "input") => C9_DrainEndOk ]_vars

\* C10: searchAhead returns, and when it has returned either the input queue
\* and the deferred queue are both empty or the output is non-empty with a
\* length that is no multiple of page_size.
C10_ReturnState ==
    saPc = "done" =>
        \/ searchHitsQ = <<>> /\ nextPageHitsMaybeCheckLater = <<>>
        \/ Len(finalHits) > 0 /\ Len(finalHits) % pageSize # 0

C10_Terminates == <>(saPc = "done") /\ []C10_ReturnState

\* the incomplete-page guard stops a run that still has deferred hits
C10_Witness ==
    /\ saPc = "done"
    /\ nextPageHitsMaybeCheckLater # <<>>
    /\ searchHitsQ = <<>>
    /\ Len(finalHits) > pageSize
    /\ Len(finalHits) % pageSize # 0

\* C24, the blocks: with a cap > 0, in every block of the output at the
\* 0-based positions [i * page_size, (i + 1) * page_size) each non-empty
\* channel id occurs at most per_channel_per_page times.
C24_BlockCap ==
    perChannelPerPage > 0 =>
        \A i \in 0..(Len(finalHits) \div pageSize) :
            \A ch \in RealChannels :
                Cardinality({k \in 1..Len(finalHits) :
                                /\ i * pageSize <= k - 1
                                /\ k - 1 < (i + 1) * pageSize
                                /\ finalHits[k].ChannelId = ch}) <= perChannelPerPage

\* C24, the resets: a step that lowers a channel counter is a reset of all
\* counters taken with an output whose length is a positive multiple of
\* page_size.
C24_ResetOnlyAtPageEnd ==
    (\E ch \in ChannelIds : channelCounters'[ch] < channelCounters[ch])
        => /\ channelCounters' = EmptyCounters
           /\ Len(finalHits) > 0
           /\ Len(finalHits) % pageSize = 0

\* C24: the block cap holds of the output throughout, and the counters are
\* reset only when the output length is a positive multiple of page_size.
C24_BlockCapAndResets == []C24_BlockCap /\ [][C24_ResetOnlyAtPageEnd]_vars

\* the counters were reset after a first page on which a channel reached the
\* cap, and a hit of that channel went to the second page
C24_Witness ==
    /\ perChannelPerPage > 0
    /\ pageSize > 1
    /\ saPc = "done"
    /\ Len(finalHits) > pageSize
    /\ \E ch \in RealChannels :
          /\ CountCh(finalHits, 1, pageSize, ch) = perChannelPerPage
          /\ finalHits[pageSize + 1].ChannelId = ch

\* the hits of s without channel id, in order
WithoutChannel(s) == SelectSeq(s, LAMBDA h : h.ChannelId = "")

\* C29: a hit without channel id is never in the deferred queue; the hits
\* without channel id that have left the input queue are in the output, each
\* once and in input order; when searchAhead has returned the input queue is
\* empty, so all of them are.
C29_NoChannelHitsPassThrough ==
    /\ WithoutChannel(nextPageHitsMaybeCheckLater) = <<>>
    /\ saPc # "idle" =>
          WithoutChannel(finalHits) \o WithoutChannel(searchHitsQ) = WithoutChannel(searchHits)
    /\ saPc = "done" => searchHitsQ = <<>>

\* hits without channel id came through while a hit with a channel id was
\* deferred and lost, with the cap on and with the cap at 0
C29_Witness ==
    /\ saPc = "done"
    /\ Len(WithoutChannel(searchHits)) >= 2
    /\ Len(finalHits) < Len(searchHits)
    /\ searchHits[1].ChannelId # ""
    /\ finalHits[Len(finalHits)].ChannelId = ""

\* ------------------------------------------------------------------------
\* Properties of the UTXO codec
\* ------------------------------------------------------------------------
\* C3: for every record with a 1-byte prefix and an 11-byte hashX,
\* UTXOKeyUnpack(PackKey(r)) = r field by field, and for every amount
\* UTXOValueUnpack(PackValue(v)) = v; two different legal records never pack
\* to the same bytes.
C3_RoundTrip ==
    cdPc = "unpacked" =>
        /\ \A n \in 1..2 :
              LegalKey(utxoKey[n]) =>
                  /\ unpackedKey[n].Prefix = utxoKey[n].Prefix
                  /\ unpackedKey[n].HashX = utxoKey[n].HashX
                  /\ unpackedKey[n].TxNum = utxoKey[n].TxNum
                  /\ unpackedKey[n].Nout = utxoKey[n].Nout
        /\ unpackedValue.Amount = utxoValue.Amount
        /\ (LegalKey(utxoKey[1]) /\ LegalKey(utxoKey[2]) /\ utxoKey[1] # utxoKey[2])
              => packedKey[1] # packedKey[2]

\* two legal records that differ in tx_num only, with all four tx_num bytes
\* in use, were packed and unpacked
C3_Witness ==
    /\ cdPc = "unpacked"
    /\ LegalKey(utxoKey[1])
    /\ LegalKey(utxoKey[2])
    /\ utxoKey[1].TxNum = <<65535, 65535>>
    /\ utxoKey[2].TxNum = <<0, 256>>
    /\ utxoKey[1].HashX = utxoKey[2].HashX
    /\ utxoKey[1].Nout = utxoKey[2].Nout
    /\ utxoKey[1].Prefix = utxoKey[2].Prefix
    /\ Len(packedKey[1]) = 18
    /\ utxoValue.Amount = <<255, 0, 0, 256>>

\* a is the leading Len(a) bytes of b
IsPrefixOf(a, b) == Len(a) <= Len(b) /\ \A k \in 1..Len(a) : a[k] = b[k]

\* byte strings in lexicographic order
RECURSIVE BytesLess(_, _)
BytesLess(a, b) ==
    IF b = <<>> THEN FALSE
    ELSE IF a = <<>> THEN TRUE
    ELSE IF Head(a) # Head(b) THEN Head(a) < Head(b)
    ELSE BytesLess(Tail(a), Tail(b))

\* uint32 values, held as limbs, in numeric order
TxNumLess(a, b) == a[1] < b[1] \/ (a[1] = b[1] /\ a[2] < b[2])

\* records in the order (hashX bytes, tx_num, nout)
KeyLess(r1, r2) ==
    \/ BytesLess(r1.HashX, r2.HashX)
    \/ /\ r1.HashX = r2.HashX
       /\ \/ TxNumLess(r1.TxNum, r2.TxNum)
          \/ r1.TxNum = r2.TxNum /\ r1.Nout < r2.Nout

\* the two records agree on the prefix and on the first k fields
AgreeOn(r1, r2, k) ==
    /\ r1.Prefix = r2.Prefix
    /\ k >= 1 => r1.HashX = r2.HashX
    /\ k >= 2 => r1.TxNum = r2.TxNum
    /\ k >= 3 => r1.Nout = r2.Nout

\* C16: for every record and k in 1..3 the partial pack of k fields is the
\* leading bytes of the full pack, shorter than it for k < 3 and equal to it
\* for k = 3, and two records that agree on the prefix and the first k fields
\* have the same partial pack.
C16_PartialIsPrefix ==
    cdPc # "input" =>
        \A k \in 1..3 :
            /\ \A r \in 1..2 :
                  /\ IsPrefixOf(packedPartial[r][k], packedKey[r])
                  /\ k < 3 => Len(packedPartial[r][k]) < Len(packedKey[r])
                  /\ k = 3 => packedPartial[r][k] = packedKey[r]
            /\ AgreeOn(utxoKey[1], utxoKey[2], k) => packedPartial[1][k] = packedPartial[2][k]

\* two legal records that agree on hashX and tx_num but not on nout were
\* packed, with all four tx_num bytes in use
C16_Witness ==
    /\ cdPc = "packed"
    /\ LegalKey(utxoKey[1])
    /\ LegalKey(utxoKey[2])
    /\ AgreeOn(utxoKey[1], utxoKey[2], 2)
    /\ utxoKey[1].Nout # utxoKey[2].Nout
    /\ utxoKey[1].TxNum = <<65535, 65535>>
    /\ utxoKey[1].HashX # Zeros(HashXLen)
    /\ Len(packedPartial[1][2]) = 16
    /\ packedKey[1] # packedKey[2]

\* C17: for two legal records with the same prefix, r1 < r2 in the order
\* (hashX, tx_num, nout) implies PackKey(r1) < PackKey(r2) in byte order.
C17_PackMonotone ==
    (/\ cdPc # "input"
     /\ LegalKey(utxoKey[1])
     /\ LegalKey(utxoKey[2])
     /\ utxoKey[1].Prefix = utxoKey[2].Prefix
     /\ KeyLess(utxoKey[1], utxoKey[2]))
        => BytesLess(packedKey[1], packedKey[2])

\* two legal records with the same hashX were packed whose tx_num differ in
\* the high and in the low half, in opposite directions
C17_Witness ==
    /\ cdPc = "packed"
    /\ LegalKey(utxoKey[1])
    /\ LegalKey(utxoKey[2])
    /\ utxoKey[1].Prefix = utxoKey[2].Prefix
    /\ utxoKey[1].HashX = utxoKey[2].HashX
    /\ utxoKey[1].TxNum = <<0, 256>>
    /\ utxoKey[2].TxNum = <<1, 0>>
    /\ utxoKey[1].Nout > utxoKey[2].Nout
    /\ BytesLess(packedKey[1], packedKey[2])

\* C19: every nFields < 0 gives what nFields = 0 gives, the prefix alone;
\* every nFields > 3 gives what nFields = 3 gives, the full key; the lengths
\* for nFields = 0, 1, 2, 3 are 1, 12, 16, 18.
C19_NFieldsClamped ==
    cdPc # "input" =>
        \A r \in 1..2 :
            /\ \A n \in NFieldsRange :
                  /\ n < 0 => packedPartial[r][n] = packedPartial[r][0]
                  /\ n > 3 => packedPartial[r][n] = packedPartial[r][3]
            /\ packedPartial[r][0] = Slice(utxoKey[r].Prefix, 1, 1)
            /\ packedPartial[r][3] = packedKey[r]
            /\ Len(packedPartial[r][0]) = 1
            /\ Len(packedPartial[r][1]) = 12
            /\ Len(packedPartial[r][2]) = 16
            /\ Len(packedPartial[r][3]) = 18

\* a legal record with a non-zero prefix byte was packed with nFields below
\* 0 and above 3
C19_Witness ==
    /\ cdPc = "packed"
    /\ LegalKey(utxoKey[1])
    /\ utxoKey[1].Prefix = <<117>>
    /\ utxoKey[1].Nout = 65535
    /\ packedPartial[1][0 - MaxNFields] = <<117>>
    /\ Len(packedPartial[1][MaxNFields]) = 18

\* ------------------------------------------------------------------------
\* Properties of the load-or-store functions
\* ------------------------------------------------------------------------
\* the callers that have returned from a call about map m and key k
Returned(m, k) ==
    {p \in Callers : lsPc[p] \in {"done", "answered"} /\ lsCall[p] = [map |-> m, key |-> k]}

\* the callers that have entered a call about map m and key k
Entered(m, k) ==
    {p \in Callers : lsPc[p] # "idle" /\ lsCall[p] = [map |-> m, key |-> k]}

\* C4: of the concurrent calls made with the same key at most one returns
\* loaded = false (exactly one once all have returned), all return the same
\* actual peer, the one stored first, and the map entry is never overwritten
\* once stored.
C4_LoadOrStoreAtomic ==
    \A m \in PeerMapNames, k \in PeerKeys :
        /\ Cardinality({p \in Returned(m, k) : ~lsRet[p].loaded}) <= 1
        /\ (Returned(m, k) # {} /\ Returned(m, k) = Entered(m, k))
              => Cardinality({p \in Returned(m, k) : ~lsRet[p].loaded}) = 1
        /\ \A p \in Returned(m, k) : lsRet[p].actual = firstStored[m][k]
        /\ <<m, k>> \notin overwritten

\* ------------------------------------------------------------------------
\* Properties of Iter / Iter2
\* ------------------------------------------------------------------------
StoredKeys == {dbRows[k].Key : k \in 1..Len(dbRows)}

\* the keys the options ask for: prefix is a prefix of k, Start <= k (Start < k
\* without IncludeStart), k <= Stop (k < Stop without IncludeStop)
BoundedKeys ==
    {k \in StoredKeys :
        /\ rowPrefix = NilBytes \/ HasPrefix(k, rowPrefix)
        /\ \/ options.Start = NilBytes
           \/ Compare(options.Start, k) < 0
           \/ options.IncludeStart /\ options.Start = k
        /\ \/ options.Stop = NilBytes
           \/ Compare(k, options.Stop) < 0
           \/ options.IncludeStop /\ options.Stop = k}

\* the keys of the items received
ReceivedKeys == {received[k].Raw : k \in 1..Len(received)}

\* C1: when the sequence has ended and the consumer took every item, the keys
\* emitted are exactly the stored keys within the prefix and the Start/Stop
\* bounds, per the inclusivity flags.  (Stated for the runs in which every
\* call on the iterator was defined, so that a violation owes nothing to what
\* an undefined call returns.)
C1_EmitsExactlyBoundedKeys ==
    (itPc = "done" /\ consumer = "receiving" /\ options.IncludeKey /\ ~undefinedCall)
        => ReceivedKeys = BoundedKeys

\* C5: once the consumer has dropped the channel, the producer still ends:
\* it is never left without a step to take before it has closed the iterator
\* and released the read options, that is, it does not stay blocked on a send.
\* (Stated for the runs in which every call on the iterator was defined.)
C5_DropReleasesProducer ==
    (consumer = "dropped" /\ ~undefinedCall)
        => (ENABLED ProducerNext \/ (itClosed /\ roDestroyed))

\* the key's leading n bytes (all of it when it is shorter)
Lead(key, n) == Slice(key, 1, Min(n, Len(key)))

\* the stop test on a key: the key has Stop as a prefix, Stop is smaller than
\* the key's leading len(Stop) bytes, Start is greater than the key's leading
\* len(Start) bytes, or the key lacks the row prefix
StopTest(key) ==
    \/ /\ options.Stop # NilBytes
       /\ \/ HasPrefix(key, options.Stop)
          \/ Compare(options.Stop, Lead(key, Len(options.Stop))) < 0
    \/ /\ options.Start # NilBytes
       /\ Compare(options.Start, Lead(key, Len(options.Start))) > 0
    \/ /\ rowPrefix # NilBytes
       /\ ~HasPrefix(key, rowPrefix)

\* the items made so far: those received and the one of a pending send
ItemsMade == IF itPc = "send" THEN Append(received, curItem) ELSE received

\* C11: when IncludeStop is false no item carries a key for which the stop
\* test is true, and no row between the first row emitted and a later row
\* emitted has such a key: the first such key ended the sequence.
C11_NeverEmitsStopKey ==
    ~options.IncludeStop =>
        \A k \in 1..Len(ItemsMade) :
            /\ ~StopTest(ItemsMade[k].Raw)
            /\ (ItemsMade[k].Row # 0 /\ ItemsMade[1].Row # 0)
                  => \A j \in ItemsMade[1].Row..ItemsMade[k].Row : ~StopTest(dbRows[j].Key)

\* a sequence without IncludeStop emitted an item and then ended at a stored
\* key for which the stop test is true, with rows left after it
C11_Witness ==
    /\ ~options.IncludeStop
    /\ itPc = "done"
    /\ ~undefinedCall
    /\ Len(received) >= 1
    /\ Valid(dbRows, itPos)
    /\ StopTest(dbRows[itPos].Key)
    /\ options.Stop # NilBytes

\* the first stored key >= target (Len(dbRows) + 1 when there is none)
FirstAtLeast(target) ==
    LET t  == IF target = NilBytes THEN <<>> ELSE target
        ge == {k \in 1..Len(dbRows) : Compare(dbRows[k].Key, t) >= 0}
    IN  IF ge = {} THEN Len(dbRows) + 1 ELSE CHOOSE k \in ge : \A j \in ge : k <= j

\* where Iter is to position the iterator
SeekPosition ==
    IF options.Start # NilBytes THEN FirstAtLeast(options.Start) ELSE FirstAtLeast(rowPrefix)

\* C12: when the goroutine starts the iterator is at the first stored key
\* >= Start (>= the row prefix without Start); without IncludeStart the key at
\* that position is never emitted; with IncludeStart the first item emitted
\* carries the key at that position.
C12_SeekAndIncludeStart ==
    /\ itPc = "start" => itPos = SeekPosition
    /\ (~options.IncludeStart /\ Valid(dbRows, SeekPosition))
          => \A k \in 1..Len(ItemsMade) : ItemsMade[k].Raw # dbRows[SeekPosition].Key
    /\ (options.IncludeStart /\ Valid(dbRows, SeekPosition) /\ Len(ItemsMade) >= 1)
          => ItemsMade[1].Raw = dbRows[SeekPosition].Key

\* C13: no item made carries a key or a value in the iterator's buffer, the
\* one key.Free(), value.Free(), it.Next() and it.Close() invalidate.
C13_ItemsOwnBuffers ==
    \A k \in 1..Len(ItemsMade) :
        /\ ItemsMade[k].Key.buf # "iterator"
        /\ ItemsMade[k].Value.buf # "iterator"

\* an item with key and value was received and the iterator then advanced
C13_Witness ==
    /\ itPc = "cond"
    /\ rowFuncs = "opaque"
    /\ ~undefinedCall
    /\ options.IncludeKey
    /\ options.IncludeValue
    /\ Len(received) = 2
    /\ received[1].Key.data = dbRows[1].Key
    /\ received[1].Value.data = dbRows[1].Value
    /\ nextCalls >= 2

\* C14: the Next() calls made are at most the items received (one more when
\* IncludeStart is false), and no stored key is carried by two items.
C14_DemandDrivenSinglePass ==
    /\ nextCalls <= Len(received) + (IF options.IncludeStart THEN 0 ELSE 1)
    /\ \A j, k \in 1..Len(ItemsMade) :
          (j < k /\ ItemsMade[j].Raw = ItemsMade[k].Raw) => ItemsMade[j].Raw \notin StoredKeys

\* C15: the producer whose iterator ran past the last stored key ends the
\* sequence: it makes no item from a position that is not valid.
C15_EndsPastLastKey == itPc = "send" => Valid(dbRows, itPos)

\* C18: over UTXO rows, a key shorter than the 18 bytes of the schema makes
\* the key's unpacking report an error that ends the sequence; it does not
\* crash.  (Stated for the runs in which every call on the iterator was
\* defined, so that the crash is the unpacking's.)
C18_MalformedKeyReported ==
    (rowFuncs = "utxo" /\ ~undefinedCall) => itPc # "panic"

\* the rows the scan of one hashX is to yield: those whose key carries the
\* partial pack of (prefix, hashX), in the order of the store
UTXOExpected == SelectSeq(dbRows, LAMBDA row : HasPrefix(row.Key, options.Start))

\* C20: over a store of well-formed UTXO rows of several hashX values the scan
\* of one of them yields the rows of that hashX and nothing else, each once, in the store's order, with
\* key and amount unpacked; it does not crash, and when it has ended every one
\* of those rows was yielded.
C20_ScanYieldsHashXRows ==
    (/\ rowFuncs = "utxo"
     /\ iterFn = "Iter2"
     /\ \A k \in 1..Len(dbRows) : ~UTXOKeyUnpackPanics(dbRows[k].Key)
     /\ Len(UTXOExpected) >= 1
     /\ Len(UTXOExpected) < Len(dbRows))
        => /\ Len(ItemsMade) <= Len(UTXOExpected)
           /\ \A k \in 1..Min(Len(ItemsMade), Len(UTXOExpected)) :
                 /\ ItemsMade[k].Key.data = UTXOKeyUnpack(UTXOExpected[k].Key)
                 /\ ItemsMade[k].Value.data = UTXOValueUnpack(UTXOExpected[k].Value)
           /\ itPc # "panic"
           /\ (itPc = "done" /\ consumer = "receiving")
                 => Len(received) = Len(UTXOExpected)

\* C28: every item made was read at a position where the iterator was valid
\* and carries a stored key, and no failure (of the stop test on a key shorter
\* than Start or Stop, or of the iterator) follows a read past the last key.
C28_EmitsOnlyStoredKeys ==
    /\ \A k \in 1..Len(ItemsMade) :
          /\ ItemsMade[k].Row # 0
          /\ ItemsMade[k].Raw \in StoredKeys
    /\ itPc = "panic" => ~undefinedCall

\* the PeerSubscribe calls made with key k
Subscribers(k) == {p \in Callers : lsCall[p] = [map |-> "PeerSubs", key |-> k]}

\* C27: once every PeerSubscribe call made has answered, the subscriber count
\* is the number of keys in PeerSubs, and of the calls made with one key
\* exactly one answered Success and every other one Already subscribed.
C27_CountIsDistinctPeers ==
    (\A p \in Callers : lsCall[p].map = "PeerSubs" => lsPc[p] = "answered") =>
        /\ numPeerSubs = Cardinality({k \in PeerKeys : peerMaps["PeerSubs"][k] # NoPeer})
        /\ \A k \in PeerKeys :
              Subscribers(k) # {} =>
                  /\ Cardinality({p \in Subscribers(k) : psMsg[p] = "Success"}) = 1
                  /\ \A p \in Subscribers(k) : psMsg[p] \in {"Success", "Already subscribed"}

\* ------------------------------------------------------------------------
\* Properties of NewIterateOptions and the setters
\* ------------------------------------------------------------------------
\* C23, the object: NewIterateOptions gives the defaults; every setter returns
\* the object it was called on; the object holds, per field, the last value
\* given, the default if none was.
C23_DefaultsOverridden ==
    optCur # 0 =>
        /\ optCur = 1
        /\ Len(optHeap) = 1
        /\ optHeap[optCur] = optGiven
        /\ optCalls = 0 =>
              optHeap[optCur] = [FillCache |-> FALSE, Start |-> NilBytes, Stop |-> NilBytes,
                                 IncludeStart |-> TRUE, IncludeStop |-> FALSE,
                                 IncludeKey |-> TRUE, IncludeValue |-> FALSE]

\* C23, the frame: a setter leaves every field other than its own as it was
C23_SetterFrame ==
    (optCur # 0 /\ optCalls' = optCalls + 1) =>
        \A f \in OptionFields \ {optLast'} : optHeap'[optCur'][f] = optHeap[optCur][f]

\* C23: NewIterateOptions returns the defaults, each With* setter changes only
\* the field it names and returns the same object, so a chain of setters
\* yields the defaults overridden by the last value given for each field.
C23_SettersChain == []C23_DefaultsOverridden /\ [][C23_SetterFrame]_vars

\* a chain that has set one field twice and another field once, away from
\* the defaults
C23_Witness ==
    /\ optCalls = 3
    /\ optLast = "Stop"
    /\ optHeap[optCur].Stop = <<0, 1>>
    /\ optHeap[optCur].IncludeKey = FALSE
    /\ optHeap[optCur].Start = NilBytes
    /\ optGiven = optHeap[1]

\* ------------------------------------------------------------------------
\* Properties of ReadPrefixN
\* ------------------------------------------------------------------------
\* C26: every row ReadPrefixN has returned holds its key and its value in
\* memory of its own, not in the slices of the iterator, which is closed by
\* then.
C26_RowsOwnTheirBytes ==
    rpPc = "returned" =>
        \A k \in 1..Len(rpRes) :
            rpRes[k] # NoRow => rpRes[k].Key.buf = "heap" /\ rpRes[k].Value.buf = "heap"

\* ------------------------------------------------------------------------
\* Properties of Server.Resolve
\* ------------------------------------------------------------------------
\* the URLs whose conversion fails
Failing == {u \in 1..Len(rsUrls) : rsUrls[u].err # NoErr}

\* the txos (kind "txo") or extra txos (kind "extra") of the URLs 1..n of the
\* request, in request order
RECURSIVE Concatenated(_, _)
Concatenated(kind, n) ==
    IF n = 0 THEN <<>>
    ELSE Concatenated(kind, n - 1)
            \o (IF kind = "txo" THEN rsUrls[n].txos ELSE rsUrls[n].extraTxos)

\* C25: when the conversion of some URL fails Resolve returns the error of
\* the first such URL and no outputs, having stopped at that URL; otherwise
\* it returns the txos and the extra txos of all URLs in request order and
\* Total is the number of both.
C25_AllOrNothing ==
    rsPc = "returned" =>
        IF Failing # {}
        THEN LET u == CHOOSE f \in Failing : \A g \in Failing : f <= g
             IN  /\ rsRet.err = rsUrls[u].err
                 /\ rsRet.res = NoOutputs
                 /\ rsIdx = u
        ELSE /\ rsRet.err = NoErr
             /\ ~rsRet.res.isNil
             /\ rsRet.res.Txos = Concatenated("txo", Len(rsUrls))
             /\ rsRet.res.ExtraTxos = Concatenated("extra", Len(rsUrls))
             /\ rsRet.res.Total = Len(rsRet.res.Txos) + Len(rsRet.res.ExtraTxos)
             /\ rsIdx = Len(rsUrls)

\* a request of three URLs that all resolve, the first and the last with
\* a txo and an extra txo, the second with nothing
C25_Witness ==
    /\ rsPc = "returned"
    /\ Len(rsUrls) = 3
    /\ Failing = {}
    /\ Len(rsUrls[1].txos) = 1
    /\ rsUrls[2].txos = <<>>
    /\ Len(rsUrls[3].txos) = 1
    /\ rsRet.res.Total = 4

\* ------------------------------------------------------------------------
\* Properties of Server.HeightSubscribe
\* ------------------------------------------------------------------------
\* C21: with the DB loaded, HeightSubscribe returns only once the height is
\* at least want, and when it returns nil it has sent exactly one message,
\* carrying a height that is at least want.
C21_SendsHeightOnce ==
    (hsPc = "returned" /\ hsDB) =>
        /\ hsHeight >= hsWant
        /\ hsErr = NoErr => Len(hsSent) = 1 /\ hsSent[1] >= hsWant

\* ------------------------------------------------------------------------
\* Properties of the notifier channel
\* ------------------------------------------------------------------------
\* C22: the follower is never blocked on the notifier channel; the event it
\* has not handed over is the latest height, the earlier ones being
\* coalesced into it; the notifier receives heights in rising order; and
\* with nothing pending the last height received is the latest.
C22_FollowerNeverBlocked ==
    /\ ntFollower # "blocked"
    /\ ntPending \in {NoEvent, ntTip}
    /\ \A k \in 1..Len(ntDelivered) - 1 : ntDelivered[k] < ntDelivered[k + 1]
    /\ (ntFollower = "idle" /\ ntPending = NoEvent /\ ntTip > 0) =>
          (ntDelivered # <<>> /\ ntDelivered[Len(ntDelivered)] = ntTip)

\* change detection runs and the notifier was not started: the follower has
\* gone on to the third height with the events coalesced
C22_Witness ==
    /\ ntArgs.DisableStartNotifier
    /\ ntFollower = "idle"
    /\ ntTip = 3
    /\ ntPending = 3
    /\ ntDelivered = <<>>

\* ------------------------------------------------------------------------
\* Properties of main in serve mode
\* ------------------------------------------------------------------------
\* the three shutdown steps, without those whose object was not created
ShutdownSequence ==
    SelectSeq(<<"EsClient.Stop", "GrpcServer.GracefulStop", "DB.Shutdown">>,
              LAMBDA step : /\ step = "EsClient.Stop" => mnEsClient
                            /\ step = "DB.Shutdown" => mnDB)

\* C30: in every start-up configuration, once the interrupt is received main
\* has a step to take until the shutdown is done; the shutdown steps done are
\* at every moment the first steps of the sequence (search client, gRPC
\* server, DB), each once; main does not crash in them; and when main has
\* returned the sequence is complete.
C30_ShutdownOnInterrupt ==
    /\ mnPc # "panic"
    /\ Len(mnLog) <= Len(ShutdownSequence)
    /\ mnLog = SubSeq(ShutdownSequence, 1, Len(mnLog))
    /\ mnPc = "exited" => mnLog = ShutdownSequence
    /\ (mnSignal # "none" /\ mnPc \notin {"exited", "panic"}) => ENABLED MainStep

====
